---------------------------- MODULE Spec2Model ----------------------------
(***************************************************************************)
(* Model of experimental-threads: the Mutex / MutexGuard primitives built  *)
(* on Atomics.compareExchange / waitAsync / notify (primitives.ts) and the *)
(* per-signature worker pool of the dispatch entry (lib.ts).               *)
(*                                                                         *)
(* SpecMutex : lock() calls of several isolates on one shared lock word.   *)
(* Spec      : the dispatch entry, the worker pool, idle eviction and      *)
(*             shutdown() on the caller thread, with the workers and the   *)
(*             host's message transport.                                   *)
(***************************************************************************)
EXTENDS Integers, Sequences, FiniteSets, TLC

VARIABLES
    \* ---- Mutex (primitives.ts) ----
    lockState,   \* this.state[IDX_LOCK_STATE]: the shared 32-bit lock word
    waiters,     \* the host's FIFO waiter list of the lock word (waitAsync)
    pc,          \* pc[c]: position of lock() call c / of its guard
    released,    \* released[c]: MutexGuard._released of the guard of call c
    threw,       \* threw[c]: release() of call c threw "Mutex is not locked"
    heldAtIssue, \* heldAtIssue[c]: the call whose guard held the mutex when
                 \*   lock() call c was issued (0: the mutex was free)
    active,      \* active[i]: the call whose synchronous segment runs on isolate i
    \* ---- Worker pool (lib.ts) ----
    WORKER_POOL,          \* Map<signatureKey, PoolEntry[]>: signature -> entry ids
    TOTAL_ACTIVE_WORKERS, \* the process active-worker count
    entries,     \* entries[e]: the PoolEntry objects ever constructed
    timers,      \* the host's armed timeouts, <<entry, timer id>>
    listeners,   \* listeners[e]: jobs whose onMsg/onError are attached to worker e
    wstate,      \* wstate[e]: "alive", "dead" (closed by the host after an error),
                 \*   "evicted" (terminated by its idle timer), "terminated" (by shutdown)
    inbox,       \* inbox[e]: job messages worker e was sent and has not yet responded to
    outbox,      \* outbox[e]: responses posted by worker e and not yet delivered
    jobs,        \* jobs[j]: the dispatches made so far: signature, entry, whether
                 \*   postMessage succeeded, pool.length found, state of the promise
    \* ---- Shared-memory registry (primitives.ts), per isolate ----
    GLOBAL_MEMORY,         \* GLOBAL_MEMORY[t]: Map<key, SharedArrayBuffer>, in insertion order
    WORKER_MEMORY_CACHE,   \* WORKER_MEMORY_CACHE[t]: Map<key, SharedArrayBuffer>
    PENDING_HYDRATION,     \* PENDING_HYDRATION[t]: Map<base id, Global>
    globals,     \* globals[<<t, s, n>>]: the n-th Global built at site s on isolate t
    built,       \* built[t][s]: how many Globals isolate t has built at site s
    started,     \* started[t]: isolate t exists (its worker was constructed)
    chan,        \* chan[t]: job messages posted to worker t and not yet handled
    processed,   \* processed[t]: job messages worker t has handled
    \* ---- Semaphore (primitives.ts) ----
    permits,     \* this.state[IDX_PERMITS]: the shared signed permit word
    semMade,     \* the Semaphore was constructed
    initial,     \* the permits the constructor was given
    parked,      \* the acquire() calls parked on the permit word by waitAsync
    apc,         \* apc[a]: position of acquire() call a
    amount,      \* amount[a]: the amount of acquire() call a
    current,     \* current[a]: the value acquire() call a loaded last
    rpc,         \* rpc[r]: amount of the release() call r that has added and
                 \*   not yet notified (0: not in a release)
    taken,       \* sum of the amounts of the fulfilled acquire() calls
    given,       \* sum of the amounts of the completed release() calls
    disposals,   \* disposals[a]: times the token of acquire() call a was disposed
    \* ---- Props filter of the dispatch entry (lib.ts) ----
    props,       \* the props object: captured name -> kind of its value
    captured,    \* the props as the eval'd snippet built them
    filtered,    \* the filter loop of __worker_wrapper__ has run on props
    \* ---- A Mutex passed in the props (hydrate, primitives.ts) ----
    rawProps,    \* rawProps[t]: the captured Mutex as the code of isolate t holds it
    rawChan,     \* rawChan[t]: job messages posted to worker t, not yet handled
    rawHandled,  \* rawHandled[t]: job messages worker t has handled
    \* ---- Scope analyzer of spawn() (lib.ts) ----
    file,        \* the parsed source file (FILE_CACHE entry) of the last analysis
    pos,         \* the offset of the call site in that file
    fnNode,      \* the node findFn selected (0: none)
    locals,      \* SCOPE_ANALYSIS_CACHE entry of the site: locals
    topLevels,   \* SCOPE_ANALYSIS_CACHE entry of the site: topLevels
    \* ---- getTransferables (utils.ts) ----
    graph,       \* the value graph of the argument
    calls,       \* the walk(value) calls still to be made, the next one first
    seen,        \* seen: the values walk() has entered
    transferables, \* transferables: a Set, in insertion order
    xpc,         \* "idle", "walk" (inside walk(obj)), "returned"
    \* ---- both ----
    last         \* the operation performed by the last step

mutexVars == <<lockState, waiters, pc, released, threw, heldAtIssue, active>>

poolVars == <<WORKER_POOL, TOTAL_ACTIVE_WORKERS, entries, timers, listeners,
              wstate, inbox, outbox, jobs>>

memVars == <<GLOBAL_MEMORY, WORKER_MEMORY_CACHE, PENDING_HYDRATION, globals, built,
             started, chan, processed>>

semVars == <<permits, semMade, initial, parked, apc, amount, current, rpc, taken, given,
            disposals>>

fltVars == <<props, captured, filtered>>

rawVars == <<rawProps, rawChan, rawHandled>>

scopeVars == <<file, pos, fnNode, locals, topLevels>>

xferVars == <<graph, calls, seen, transferables, xpc>>

pureVars == <<scopeVars, xferVars>>

vars == <<mutexVars, poolVars, memVars, semVars, fltVars, rawVars, pureVars, last>>

\* What the steps of the mutex leave alone.
offMutex == <<poolVars, memVars, semVars, fltVars, rawVars, pureVars>>

\* What the steps of the worker pool leave alone.
offPool == <<mutexVars, memVars, semVars, fltVars, rawVars, pureVars>>

\* What the steps of the shared-memory registry leave alone.
offMem == <<mutexVars, poolVars, semVars, fltVars, rawVars, pureVars, last>>

\* What the steps of the semaphore leave alone.
offSem == <<mutexVars, poolVars, memVars, fltVars, rawVars, pureVars, last>>

\* What the steps that pass a Mutex in the props leave alone.
offRaw == <<mutexVars, poolVars, memVars, semVars, fltVars, pureVars, last>>

\* What the steps of the props filter leave alone.
offFlt == <<mutexVars, poolVars, memVars, semVars, rawVars, pureVars, last>>

\* Everything outside the scope analyzer.
offScope == <<mutexVars, poolVars, memVars, semVars, fltVars, rawVars, xferVars, last>>

\* Everything outside getTransferables.
offXfer == <<mutexVars, poolVars, memVars, semVars, fltVars, rawVars, scopeVars, last>>

-----------------------------------------------------------------------------
(***************************************************************************)
(* Mutex                                                                   *)
(***************************************************************************)

\* Number of lock() call slots (each slot issues lock() again and again).
NumCalls == 3

Calls == 1..NumCalls

\* Two isolates; the calls are spread over them, so that two calls share a thread.
Isolates == {0, 1}

IsolateOf(c) == c % 2

UNLOCKED == 0

LOCKED == 1

\* A mutant of CompareExchange: the word is compared but never written.
CompareExchangeNoStore(word, expected, replacement) == word

\* Atomics.compareExchange(ta, idx, expected, replacement): the value stored after it.
CompareExchange(word, expected, replacement) ==
    IF word = expected THEN replacement ELSE word

\* The isolate of c is free to run a new synchronous segment of c.
CanStart(c) == active[IsolateOf(c)] = 0

\* The isolate of c is in the middle of a synchronous segment of c.
InSegment(c) == active[IsolateOf(c)] = c

\* The calls that hold a guard returned by lock() and not yet released.
LiveGuards == {c \in Calls : pc[c] = "guard" /\ ~released[c]}

\* A mutant of LockWon: the compare-exchange result is ignored.
LockWonAlways == TRUE

\* lock(): Atomics.compareExchange(state, 0, UNLOCKED, LOCKED) === UNLOCKED
LockWon == lockState = UNLOCKED

\* lock(), one pass of the loop up to the compare-exchange.  A call enters it
\* when it is issued (the async function runs synchronously up to its first
\* await), when the loop comes round after a synchronous "not-equal" wait and
\* when the awaited wait promise has resolved.
LockCAS(c) ==
    /\ \/ pc[c] = "idle" /\ CanStart(c)
       \/ pc[c] = "notified" /\ CanStart(c)
       \/ pc[c] = "cas" /\ InSegment(c)
    /\ IF LockWon
         THEN /\ lockState' = CompareExchange(lockState, UNLOCKED, LOCKED)
              /\ pc' = [pc EXCEPT ![c] = "guard"]
              /\ released' = [released EXCEPT ![c] = FALSE]
              /\ active' = [active EXCEPT ![IsolateOf(c)] = 0]
         ELSE /\ lockState' = lockState
              /\ pc' = [pc EXCEPT ![c] = "wait"]
              /\ released' = released
              /\ active' = [active EXCEPT ![IsolateOf(c)] = c]
    /\ heldAtIssue' =
          IF pc[c] = "idle"
            THEN [heldAtIssue EXCEPT
                    ![c] = IF LiveGuards = {} THEN 0 ELSE CHOOSE h \in LiveGuards : TRUE]
            ELSE heldAtIssue
    /\ last' = [op |-> "lock", id |-> c]
    /\ UNCHANGED <<waiters, threw>>

\* lock(): Atomics.waitAsync(state, 0, LOCKED); if (res.async) await res.value.
\* The wait is synchronous ("not-equal") when the word is no longer LOCKED.
WaitAsync(c) ==
    /\ pc[c] = "wait"
    /\ InSegment(c)
    /\ IF lockState = LOCKED
         THEN /\ waiters' = Append(waiters, c)
              /\ pc' = [pc EXCEPT ![c] = "parked"]
              /\ active' = [active EXCEPT ![IsolateOf(c)] = 0]
         ELSE /\ waiters' = waiters
              /\ pc' = [pc EXCEPT ![c] = "cas"]
              /\ active' = active
    /\ last' = [op |-> "waitAsync", id |-> c]
    /\ UNCHANGED <<lockState, released, threw, heldAtIssue>>

\* A mutant of AlreadyReleased: the guard forgets that it was released.
AlreadyReleasedNever(c) == FALSE

\* MutexGuard.unlock(): if (this._released) return;
AlreadyReleased(c) == released[c]

\* MutexGuard.unlock() / [Symbol.dispose](), with the compare-exchange of
\* Mutex.release(): a released guard returns at once; otherwise the guard is
\* marked released and the word goes LOCKED -> UNLOCKED, or release() throws.
Unlock(c) ==
    /\ pc[c] = "guard"
    /\ CanStart(c)
    /\ last' = [op |-> "unlock", id |-> c]
    /\ IF AlreadyReleased(c)
         THEN UNCHANGED mutexVars
         ELSE /\ released' = [released EXCEPT ![c] = TRUE]
              /\ lockState' = CompareExchange(lockState, LOCKED, UNLOCKED)
              /\ heldAtIssue' = [d \in Calls |->
                                   IF heldAtIssue[d] = c THEN 0 ELSE heldAtIssue[d]]
              /\ IF lockState = LOCKED
                   THEN /\ pc' = [pc EXCEPT ![c] = "notify"]
                        /\ active' = [active EXCEPT ![IsolateOf(c)] = c]
                        /\ threw' = threw
                   ELSE /\ pc' = pc
                        /\ active' = active
                        /\ threw' = [threw EXCEPT ![c] = TRUE]
              /\ waiters' = waiters

\* A mutant of Woken: notify wakes no waiter.
WokenNone(ws) == <<>>

\* A mutant of Woken: notify wakes every waiter.
WokenAll(ws) == ws

\* The waiters woken by Atomics.notify(state, 0, 1): the first one, if any.
Woken(ws) == IF ws = <<>> THEN <<>> ELSE <<Head(ws)>>

\* Atomics.notify(state, 0, 1) in release() of call c, which goes on at `next`.
WakeWaiters(c, next) ==
    LET w == Woken(waiters)
    IN  /\ waiters' = SubSeq(waiters, Len(w) + 1, Len(waiters))
        /\ pc' = [d \in Calls |->
                    IF d = c THEN next
                    ELSE IF \E k \in 1..Len(w) : w[k] = d THEN "notified" ELSE pc[d]]

\* Mutex.release(): Atomics.notify(state, 0, 1) wakes the first waiter, if any.
Notify(c) ==
    /\ pc[c] = "notify"
    /\ InSegment(c)
    /\ WakeWaiters(c, "guard")
    /\ active' = [active EXCEPT ![IsolateOf(c)] = 0]
    /\ last' = [op |-> "notify", id |-> c]
    /\ UNCHANGED <<lockState, released, threw, heldAtIssue>>

\* Mutex.release() called on the mutex itself, not through a guard (the method
\* is private in the types only): the compare-exchange LOCKED -> UNLOCKED, and
\* the throw when the word was not LOCKED.
RawRelease(c) ==
    /\ pc[c] = "idle"
    /\ CanStart(c)
    /\ lockState' = CompareExchange(lockState, LOCKED, UNLOCKED)
    /\ IF lockState = LOCKED
         THEN /\ pc' = [pc EXCEPT ![c] = "rawnotify"]
              /\ active' = [active EXCEPT ![IsolateOf(c)] = c]
              /\ threw' = [threw EXCEPT ![c] = FALSE]
         ELSE /\ pc' = pc
              /\ active' = active
              /\ threw' = [threw EXCEPT ![c] = TRUE]
    /\ last' = [op |-> "release", id |-> c]
    /\ UNCHANGED <<waiters, released, heldAtIssue>>

\* The Atomics.notify(state, 0, 1) of a release() called on the mutex itself.
RawNotify(c) ==
    /\ pc[c] = "rawnotify"
    /\ InSegment(c)
    /\ WakeWaiters(c, "idle")
    /\ active' = [active EXCEPT ![IsolateOf(c)] = 0]
    /\ last' = [op |-> "notify", id |-> c]
    /\ UNCHANGED <<lockState, released, threw, heldAtIssue>>

\* The holder drops its released guard; the slot may issue lock() again.
Drop(c) ==
    /\ pc[c] = "guard"
    /\ released[c]
    /\ CanStart(c)
    /\ pc' = [pc EXCEPT ![c] = "idle"]
    /\ released' = [released EXCEPT ![c] = FALSE]
    /\ threw' = [threw EXCEPT ![c] = FALSE]
    /\ last' = [op |-> "drop", id |-> c]
    /\ UNCHANGED <<lockState, waiters, heldAtIssue, active>>

MutexInit ==
    /\ lockState = UNLOCKED
    /\ waiters = <<>>
    /\ pc = [c \in Calls |-> "idle"]
    /\ released = [c \in Calls |-> FALSE]
    /\ threw = [c \in Calls |-> FALSE]
    /\ heldAtIssue = [c \in Calls |-> 0]
    /\ active = [i \in Isolates |-> 0]

MutexNext ==
    \E c \in Calls :
        \/ LockCAS(c) /\ UNCHANGED offMutex
        \/ WaitAsync(c) /\ UNCHANGED offMutex
        \/ Unlock(c) /\ UNCHANGED offMutex
        \/ Notify(c) /\ UNCHANGED offMutex
        \/ Drop(c) /\ UNCHANGED offMutex

\* The steps of call c that the callers do not choose: the loop of a lock()
\* that was issued (a compare-exchange after a wait, the wait after a failed
\* compare-exchange) and the notify of a release() under way.
LockRun(c) ==
    \/ pc[c] # "idle" /\ LockCAS(c) /\ UNCHANGED offMutex
    \/ WaitAsync(c) /\ UNCHANGED offMutex
    \/ Notify(c) /\ UNCHANGED offMutex

\* The mutex with callers that also call release() on the mutex itself.
ReleaseNext ==
    \/ MutexNext
    \/ \E c \in Calls : RawRelease(c) /\ UNCHANGED offMutex
    \/ \E c \in Calls : RawNotify(c) /\ UNCHANGED offMutex

-----------------------------------------------------------------------------
(***************************************************************************)
(* Worker pool: __worker_wrapper__, cleanup, the idle timer, shutdown()    *)
(***************************************************************************)

\* Dispatches made in one run.
MaxJobs == 3

\* Workers constructed in one run.
MaxWorkers == 2

\* Timer ids the host hands out per entry.
MaxTimers == 2

\* The worker signatures (call site + sorted surviving capture names) in use.
Sigs == {"siteA::", "siteB::x"}

Entries == 1..Len(entries)

Jobs == 1..Len(jobs)

\* WORKER_POOL.get(signatureKey), or the fresh [] that is set when it is absent.
Pool(s) == IF s \in DOMAIN WORKER_POOL THEN WORKER_POOL[s] ELSE <<>>

\* The entries reachable from the pool map.
Pooled == {e \in Entries : \E s \in DOMAIN WORKER_POOL :
              \E i \in 1..Len(WORKER_POOL[s]) : WORKER_POOL[s][i] = e}

\* A mutant of FirstIdle: find() without the busy test.
FirstIdleAny(p) == IF p = <<>> THEN 0 ELSE p[1]

\* pool.find((e) => !e.busy): the first idle entry of the pool, 0 if none.
FirstIdle(p) ==
    LET idle == {i \in 1..Len(p) : ~entries[p[i]].busy}
    IN  IF idle = {} THEN 0
        ELSE p[CHOOSE i \in idle : \A k \in idle : i <= k]

\* A mutant of HasTimer: the reused entry is taken to have no timer.
HasTimerNever(entry) == FALSE

\* if (entry.timer)
HasTimer(entry) == entry.timer # 0

\* A mutant of ClearTimeout: the timer stays armed.
ClearTimeoutNoop(ts, e, id) == ts

\* clearTimeout(entry.timer)
ClearTimeout(ts, e, id) == ts \ {<<e, id>>}

\* setTimeout: the id of a new timer, one that no armed timer of e carries.
FreshTimer(ts, e) ==
    CHOOSE id \in 1..MaxTimers :
        /\ <<e, id>> \notin ts
        /\ \A k \in 1..MaxTimers : <<e, k>> \notin ts => id <= k

\* A mutant of Splice: the entry is left in the array.
SpliceNoop(p, e) == p

\* const idx = pool.indexOf(entry); if (idx > -1) pool.splice(idx, 1)
Splice(p, e) == SelectSeq(p, LAMBDA x : x # e)

\* worker.terminate(): the worker stops, its queued messages are discarded
\* and no event is delivered for it afterwards.
Terminated(ws, es, how) == [e \in DOMAIN ws |-> IF e \in es THEN how ELSE ws[e]]

\* worker.terminate() was called on the worker of entry e.
IsTerminated(e) == wstate[e] \in {"evicted", "terminated"}

Emptied(q, es) == [e \in DOMAIN q |-> IF e \in es THEN <<>> ELSE q[e]]

\* No job of signature s is awaiting its response.
NonePending(s) == \A j \in Jobs : jobs[j].sig = s => jobs[j].promise # "pending"

\* __worker_wrapper__ after the props filter: the pool of the signature is
\* looked up (or created), the first idle entry is taken or a worker is
\* constructed, the entry is marked busy, the listeners are attached and the
\* job message is posted.  postMessage throws when the props do not survive
\* structured cloning: the executor's throw rejects the promise.
Dispatch(s, clonable) ==
    /\ Len(jobs) < MaxJobs
    /\ LET p == Pool(s)
           found == FirstIdle(p)
           e == IF found = 0 THEN Len(entries) + 1 ELSE found
           j == Len(jobs) + 1
       IN  /\ found = 0 => Len(entries) < MaxWorkers
           /\ IF found = 0
                THEN /\ entries' = Append(entries, [sig |-> s, busy |-> TRUE, timer |-> 0])
                     /\ TOTAL_ACTIVE_WORKERS' = TOTAL_ACTIVE_WORKERS + 1
                     /\ WORKER_POOL' = (s :> Append(p, e)) @@ WORKER_POOL
                     /\ timers' = timers
                     /\ wstate' = Append(wstate, "alive")
                     /\ listeners' = Append(listeners, <<j>>)
                     /\ inbox' = Append(inbox, IF clonable THEN <<j>> ELSE <<>>)
                     /\ outbox' = Append(outbox, <<>>)
                ELSE /\ entries' = [entries EXCEPT ![e].busy = TRUE, ![e].timer = 0]
                     /\ TOTAL_ACTIVE_WORKERS' = TOTAL_ACTIVE_WORKERS
                     /\ WORKER_POOL' = (s :> p) @@ WORKER_POOL
                     /\ timers' = IF HasTimer(entries[e])
                                    THEN ClearTimeout(timers, e, entries[e].timer)
                                    ELSE timers
                     /\ wstate' = wstate
                     /\ listeners' = [listeners EXCEPT ![e] = Append(@, j)]
                     /\ inbox' = IF clonable /\ wstate[e] = "alive"
                                   THEN [inbox EXCEPT ![e] = Append(@, j)]
                                   ELSE inbox
                     /\ outbox' = outbox
           /\ jobs' = Append(jobs, [sig |-> s, entry |-> e,
                                    posted |-> clonable, poolSize |-> Len(p),
                                    promise |-> IF clonable THEN "pending" ELSE "rejected"])
           /\ UNCHANGED last
    /\ UNCHANGED offPool

\* cleanup() of every listener of worker e, in the order they were attached:
\* each sets busy = false and arms a timer of its own, entry.timer keeping the last.
RECURSIVE Cleanups(_, _, _, _)
Cleanups(k, ts, e, field) ==
    IF k = 0 THEN [ts |-> ts, field |-> field]
    ELSE LET id == FreshTimer(ts, e)
         IN  Cleanups(k - 1, ts \cup {<<e, id>>}, e, id)

\* Some timer id is free for each of the k timers to arm.
CanArm(k, e) == Cardinality({id \in 1..MaxTimers : <<e, id>> \notin timers}) >= k

\* A "message" or "error" event on worker e reaches the caller thread: onMsg /
\* onError of each attached job runs cleanup() and settles the job's promise
\* (a promise that is already settled stays as it is).
OnEvent(e, outcome) ==
    LET L == listeners[e]
        after == Cleanups(Len(L), timers, e, entries[e].timer)
        heard == {L[i] : i \in 1..Len(L)}
    IN  /\ CanArm(Len(L), e)
        /\ listeners' = [listeners EXCEPT ![e] = <<>>]
        /\ timers' = after.ts
        /\ entries' = IF L = <<>> THEN entries
                      ELSE [entries EXCEPT ![e].busy = FALSE, ![e].timer = after.field]
        /\ jobs' = [j \in DOMAIN jobs |->
                      IF j \in heard /\ jobs[j].promise = "pending"
                        THEN [jobs[j] EXCEPT !.promise = outcome]
                        ELSE jobs[j]]

\* WORKER_BODY, the message the handler posts for one job.  The user function
\* returns (resolves) or throws (rejects) a value that survives structured
\* cloning or does not.  postMessage({ type: 'success', result }) throws a
\* DataCloneError inside the try when the result is not clonable, and the catch
\* posts that error; whether the host can clone its own DataCloneError is the
\* host's choice (dce).  A thrown value that is not clonable makes the
\* postMessage of the catch throw: the handler rejects and nothing is posted.
PostedType(outcome, clonable, dce) ==
    IF outcome = "returns"
      THEN IF clonable THEN "success" ELSE IF dce THEN "error" ELSE "none"
      ELSE IF clonable THEN "error" ELSE "none"

\* The worker entry (WORKER_BODY) finishes the user function of one of the job
\* messages it has received and posts its response, if it can.
WorkerRespond(e, i, outcome, clonable, dce) ==
    /\ wstate[e] = "alive"
    /\ i \in 1..Len(inbox[e])
    /\ LET type == PostedType(outcome, clonable, dce)
       IN  outbox' = IF type = "none" THEN outbox
                     ELSE [outbox EXCEPT ![e] = Append(@, [type |-> type, job |-> inbox[e][i]])]
    /\ inbox' = [inbox EXCEPT ![e] = SelectSeq(@, LAMBDA x : x # inbox[e][i])]
    /\ UNCHANGED last
    /\ UNCHANGED <<WORKER_POOL, TOTAL_ACTIVE_WORKERS, entries, timers, listeners,
                   wstate, jobs>>
    /\ UNCHANGED offPool

\* The host delivers the next response of worker e as a "message" event.
Deliver(e) ==
    /\ ~IsTerminated(e)
    /\ outbox[e] # <<>>
    /\ LET m == Head(outbox[e])
       IN  OnEvent(e, IF m.type = "error" THEN "rejected" ELSE "fulfilled")
    /\ outbox' = [outbox EXCEPT ![e] = Tail(@)]
    /\ UNCHANGED last
    /\ UNCHANGED <<WORKER_POOL, TOTAL_ACTIVE_WORKERS, wstate, inbox>>
    /\ UNCHANGED offPool

\* A mutant of ErrorOutcome: onError does not settle the promise.
ErrorOutcomeNone == "pending"

\* onError: reject(e.error)
ErrorOutcome == "rejected"

\* Worker e raises an uncaught error; the host fires "error" on the Worker
\* object.  Whether the worker lives on is the host's choice: it either keeps
\* running what it was running, or is closed and its messages are discarded.
WorkerError(e, survives) ==
    /\ wstate[e] = "alive"
    /\ listeners[e] # <<>> \/ inbox[e] # <<>>
    /\ OnEvent(e, ErrorOutcome)
    /\ IF survives
         THEN UNCHANGED <<wstate, inbox, outbox>>
         ELSE /\ wstate' = [wstate EXCEPT ![e] = "dead"]
              /\ inbox' = Emptied(inbox, {e})
              /\ outbox' = Emptied(outbox, {e})
    /\ UNCHANGED last
    /\ UNCHANGED <<WORKER_POOL, TOTAL_ACTIVE_WORKERS>>
    /\ UNCHANGED offPool

\* A mutant of EvictedCount: the timer callback leaves the count as it was.
EvictedCountKept == TOTAL_ACTIVE_WORKERS

\* The idle timer callback: TOTAL_ACTIVE_WORKERS--
EvictedCount == TOTAL_ACTIVE_WORKERS - 1

\* The idle timer callback armed by cleanup(): terminate the worker, decrement
\* the count, remove the entry from the pool array it was dispatched from.
TimerFires(e, id) ==
    /\ <<e, id>> \in timers
    /\ timers' = timers \ {<<e, id>>}
    /\ wstate' = Terminated(wstate, {e}, "evicted")
    /\ inbox' = Emptied(inbox, {e})
    /\ outbox' = Emptied(outbox, {e})
    /\ TOTAL_ACTIVE_WORKERS' = EvictedCount
    /\ WORKER_POOL' = [s \in DOMAIN WORKER_POOL |-> Splice(WORKER_POOL[s], e)]
    /\ UNCHANGED last
    /\ UNCHANGED <<entries, listeners, jobs>>
    /\ UNCHANGED offPool

\* A mutant of Cleared: the pool map keeps its pools.
ClearedKept == WORKER_POOL

\* shutdown(): WORKER_POOL.clear()
Cleared == <<>>

\* A mutant of ShutdownCount: the count is left as it was.
ShutdownCountKept == TOTAL_ACTIVE_WORKERS

\* shutdown(): TOTAL_ACTIVE_WORKERS = 0
ShutdownCount == 0

\* shutdown(): every entry of every pool has its timer cleared and its worker
\* terminated; the pool map is cleared and the count reset.
Shutdown ==
    /\ timers' = {t \in timers :
                    ~(t[1] \in Pooled /\ entries[t[1]].timer # 0
                        /\ t \notin ClearTimeout({t}, t[1], entries[t[1]].timer))}
    /\ wstate' = Terminated(wstate, Pooled, "terminated")
    /\ inbox' = Emptied(inbox, Pooled)
    /\ outbox' = Emptied(outbox, Pooled)
    /\ WORKER_POOL' = Cleared
    /\ TOTAL_ACTIVE_WORKERS' = ShutdownCount
    /\ UNCHANGED last
    /\ UNCHANGED <<entries, listeners, jobs>>
    /\ UNCHANGED offPool

PoolInit ==
    /\ WORKER_POOL = <<>>
    /\ TOTAL_ACTIVE_WORKERS = 0
    /\ entries = <<>>
    /\ timers = {}
    /\ listeners = <<>>
    /\ wstate = <<>>
    /\ inbox = <<>>
    /\ outbox = <<>>
    /\ jobs = <<>>

\* The steps of the workers and of the host's event loop.
HostNext ==
    \/ \E e \in Entries, i \in 1..MaxJobs, outcome \in {"returns", "throws"},
          clonable \in BOOLEAN, dce \in BOOLEAN :
          WorkerRespond(e, i, outcome, clonable, dce)
    \/ \E e \in Entries : Deliver(e)
    \/ \E e \in Entries, survives \in BOOLEAN : WorkerError(e, survives)
    \/ \E e \in Entries, id \in 1..MaxTimers : TimerFires(e, id)

PoolNext ==
    \/ \E s \in Sigs, clonable \in BOOLEAN : Dispatch(s, clonable)
    \/ HostNext
    \/ Shutdown

\* A caller that issues the jobs of each signature strictly in sequence: it
\* awaits the promise of one job before it dispatches the next.
SeqDispatch(s, clonable) ==
    /\ NonePending(s)
    /\ Dispatch(s, clonable)

SeqNext ==
    \/ \E s \in Sigs, clonable \in BOOLEAN : SeqDispatch(s, clonable)
    \/ HostNext
    \/ Shutdown

-----------------------------------------------------------------------------
(***************************************************************************)
(* Shared-memory registry: Global, hydrateGlobalMemory and the job message *)
(* that carries the registry snapshot, over main -> W1 -> W2               *)
(***************************************************************************)

\* Globals built at one site by one isolate.
MaxBuilds == 2

\* Job messages posted to one worker.
MaxMsgs == 2

\* The main thread (0), a worker of the main thread (1) and a worker spawned
\* by that worker (2).
Threads == {0, 1, 2}

Workers == {1, 2}

\* const isMainThread = !("WorkerGlobalScope" in globalThis)
IsMainThread(t) == t = 0

\* The construction sites of Globals: site 1 is in the module that holds the
\* spawn call, sites 2 and 3 are in a module that it imports; the inner value
\* of sites 1 and 2 is a Mutex over a data buffer, that of site 3 a raw buffer.
Sites == {1, 2, 3}

SiteFile(s) == IF s = 1 THEN "entry.ts" ELSE "shared.ts"

SiteHasData(s) == s \in {1, 2}

\* The URL under which isolate t runs the module that holds the spawn call:
\* the worker runs the patched copy written to .workers/<md5 of signature>.ts,
\* and a nested spawn patches and copies that copy again.
EntryUrl(t) == <<"entry.ts", ".workers/h1.ts", ".workers/h2.ts">>[t + 1]

\* getCallSiteId(): url:line:col of the first stack frame outside the library.
\* Imported modules keep their URL (patchImports makes the specifier absolute).
CallSiteId(t, s) ==
    [url |-> IF SiteFile(s) = "entry.ts" THEN EntryUrl(t) ELSE SiteFile(s), line |-> s]

\* `${this.id}::state`, `${this.id}::data`
Key(id, part) == [id |-> id, part |-> part]

\* key.split("::")[0]
BaseId(key) == key.id

\* The SharedArrayBuffer object allocated on isolate t by the n-th construction
\* at site s.  thread/site/part/n name the backing store, `at` the isolate
\* that holds this SharedArrayBuffer object.
NewBuffer(t, s, part, n) == [thread |-> t, site |-> s, part |-> part, n |-> n, at |-> t]

\* No buffer (a Global whose inner value has no _data buffer).
NoBuf == [thread |-> 0, site |-> 0, part |-> "none", n |-> 0, at |-> 0]

\* The backing store of a SharedArrayBuffer object.
Store(b) == <<b.thread, b.site, b.part, b.n>>

\* Structured cloning of a SharedArrayBuffer into isolate t: a new object over
\* the same backing store.
CloneBuffer(b, t) == [b EXCEPT !.at = t]

\* Map.prototype.has / get / set / delete on a Map kept in insertion order.
Has(map, k) == \E i \in 1..Len(map) : map[i].key = k

Get(map, k) == map[CHOOSE i \in 1..Len(map) : map[i].key = k].val

Set(map, k, v) ==
    IF Has(map, k)
      THEN [i \in 1..Len(map) |-> IF map[i].key = k THEN [key |-> k, val |-> v] ELSE map[i]]
      ELSE Append(map, [key |-> k, val |-> v])

Delete(map, k) == SelectSeq(map, LAMBDA x : x.key # k)

\* A mutant of Register: the key is bound again on every construction.
RegisterAlways(mem, k, b) == Set(mem, k, b)

\* _tryHydrate, main thread: if (!GLOBAL_MEMORY.has(key)) GLOBAL_MEMORY.set(key, buffer)
Register(mem, k, b) == IF Has(mem, k) THEN mem ELSE Set(mem, k, b)

\* A mutant of ApplyStateBuffer: the inner value keeps the buffer it has.
ApplyStateBufferKept(own, buffer) == own

\* _applyStateBuffer(buffer): the inner value (a SharedArrayBuffer, or the
\* Int32Array view of a SharedStruct) is replaced by one over `buffer`.
ApplyStateBuffer(own, buffer) == buffer

\* Global._tryHydrate() of the Global ref on isolate t, on the isolate's maps
\* S = [g, mem, cache, pend].  Main thread: bind the keys that are unbound and
\* take the registered buffers.  Worker: take what the cache holds and park
\* the Global under its id unless every buffer was found.
TryHydrate(t, ref, S) ==
    LET inst == S.g[ref]
        stateKey == Key(inst.id, "state")
        dataKey == Key(inst.id, "data")
        hasData == inst.data # NoBuf
    IN  IF IsMainThread(t)
          THEN LET m1 == Register(S.mem, stateKey, inst.state)
                   m2 == IF hasData THEN Register(m1, dataKey, inst.data) ELSE m1
               IN  [S EXCEPT !.mem = m2,
                             !.g = [S.g EXCEPT
                                      ![ref].state =
                                          IF Has(S.mem, stateKey)
                                          THEN ApplyStateBuffer(inst.state, Get(S.mem, stateKey))
                                          ELSE inst.state,
                                      ![ref].data = IF hasData THEN Get(m2, dataKey) ELSE NoBuf]]
          ELSE LET okState == Has(S.cache, stateKey)
                   okData == Has(S.cache, dataKey)
                   fullyReady == okState /\ (hasData => okData)
               IN  [S EXCEPT !.g = [S.g EXCEPT
                                      ![ref].state =
                                          IF okState
                                          THEN ApplyStateBuffer(inst.state, Get(S.cache, stateKey))
                                          ELSE inst.state,
                                      ![ref].data = IF hasData /\ okData
                                                      THEN Get(S.cache, dataKey)
                                                      ELSE inst.data],
                             !.pend = IF fullyReady THEN Delete(S.pend, inst.id)
                                      ELSE Set(S.pend, inst.id, ref)]

\* hydrateGlobalMemory(map) on worker t, from entry i of the snapshot on:
\* every entry is set in both maps and the Global parked under the entry's
\* base id, if any, runs _tryHydrate().
RECURSIVE HydrateGlobalMemory(_, _, _, _)
HydrateGlobalMemory(t, snap, i, S) ==
    IF i > Len(snap) THEN S
    ELSE LET S1 == [S EXCEPT !.cache = Set(S.cache, snap[i].key, snap[i].val),
                             !.mem = Set(S.mem, snap[i].key, snap[i].val)]
             S2 == IF Has(S1.pend, BaseId(snap[i].key))
                     THEN TryHydrate(t, Get(S1.pend, BaseId(snap[i].key)), S1)
                     ELSE S1
         IN  HydrateGlobalMemory(t, snap, i + 1, S2)

\* The maps of isolate t, and their assignment.
MapsOf(t) == [g |-> globals, mem |-> GLOBAL_MEMORY[t],
              cache |-> WORKER_MEMORY_CACHE[t], pend |-> PENDING_HYDRATION[t]]

SetMaps(t, S) ==
    /\ globals' = S.g
    /\ GLOBAL_MEMORY' = [GLOBAL_MEMORY EXCEPT ![t] = S.mem]
    /\ WORKER_MEMORY_CACHE' = [WORKER_MEMORY_CACHE EXCEPT ![t] = S.cache]
    /\ PENDING_HYDRATION' = [PENDING_HYDRATION EXCEPT ![t] = S.pend]

\* The order in which the module code reaches the sites: the imported module
\* is evaluated before the module that imports it.
LoadOrder == <<2, 3, 1>>

\* The module code of isolate t has run: every site has built its Global.
Loaded(t) == \A s \in Sites : built[t][s] >= 1

\* Site s is the next to build on isolate t: while the modules load, the next
\* in module order; afterwards any site, reached again by a function call.
Reaches(t, s) ==
    \/ Loaded(t)
    \/ \E i \in 1..Len(LoadOrder) :
          /\ LoadOrder[i] = s
          /\ built[t][s] = 0
          /\ \A k \in 1..(i - 1) : built[t][LoadOrder[k]] >= 1

\* new Global(inner) at site s on isolate t: the inner value is allocated, the
\* id is taken from the call site and _tryHydrate() runs.
Construct(t, s) ==
    /\ started[t]
    /\ built[t][s] < MaxBuilds
    /\ Reaches(t, s)
    /\ LET n == built[t][s] + 1
           ref == <<t, s, n>>
           inst == [id |-> CallSiteId(t, s),
                    state |-> NewBuffer(t, s, "state", n),
                    data |-> IF SiteHasData(s) THEN NewBuffer(t, s, "data", n) ELSE NoBuf]
       IN  SetMaps(t, TryHydrate(t, ref, [MapsOf(t) EXCEPT !.g = (ref :> inst) @@ globals]))
    /\ built' = [built EXCEPT ![t][s] = @ + 1]
    /\ UNCHANGED <<started, chan, processed>>
    /\ UNCHANGED offMem

\* Object.fromEntries(GLOBAL_MEMORY.entries()), structured-cloned into worker t.
Snapshot(mem, t) ==
    [i \in 1..Len(mem) |-> [key |-> mem[i].key, val |-> CloneBuffer(mem[i].val, t)]]

\* Isolate t dispatches a job to its worker: the worker is constructed if it
\* does not exist, and { props, globalMemory } is posted.  A worker dispatches
\* from inside a job.
Spawn(t) ==
    /\ t + 1 \in Workers
    /\ started[t]
    /\ Loaded(t)
    /\ IsMainThread(t) \/ processed[t] >= 1
    /\ Len(chan[t + 1]) + processed[t + 1] < MaxMsgs
    /\ chan' = [chan EXCEPT ![t + 1] =
                  Append(@, [globalMemory |-> Snapshot(GLOBAL_MEMORY[t], t + 1)])]
    /\ started' = [started EXCEPT ![t + 1] = TRUE]
    /\ UNCHANGED <<GLOBAL_MEMORY, WORKER_MEMORY_CACHE, PENDING_HYDRATION, globals,
                   built, processed>>
    /\ UNCHANGED offMem

\* self.onmessage of worker t up to the call of the user function:
\* if (data.globalMemory) hydrateGlobalMemory(data.globalMemory).
Receive(t) ==
    /\ t \in Workers
    /\ Loaded(t)
    /\ chan[t] # <<>>
    /\ SetMaps(t, HydrateGlobalMemory(t, Head(chan[t]).globalMemory, 1, MapsOf(t)))
    /\ chan' = [chan EXCEPT ![t] = Tail(@)]
    /\ processed' = [processed EXCEPT ![t] = @ + 1]
    /\ UNCHANGED <<built, started>>
    /\ UNCHANGED offMem

\* A value written through buffer a is the value read through buffer b.
Observes(a, b) == a # NoBuf /\ b # NoBuf /\ Store(a) = Store(b)

MemInit ==
    /\ GLOBAL_MEMORY = [t \in Threads |-> <<>>]
    /\ WORKER_MEMORY_CACHE = [t \in Threads |-> <<>>]
    /\ PENDING_HYDRATION = [t \in Threads |-> <<>>]
    /\ globals = <<>>
    /\ built = [t \in Threads |-> [s \in Sites |-> 0]]
    /\ started = [t \in Threads |-> IsMainThread(t)]
    /\ chan = [t \in Threads |-> <<>>]
    /\ processed = [t \in Threads |-> 0]

MemNext ==
    \/ \E t \in Threads, s \in Sites : Construct(t, s)
    \/ \E t \in Threads : Spawn(t)
    \/ \E t \in Threads : Receive(t)

-----------------------------------------------------------------------------
(***************************************************************************)
(* Semaphore: acquire(amount) / release(amount) on one shared permit word, *)
(* every call on an isolate of its own                                     *)
(***************************************************************************)

\* acquire() call slots.
NumAcquirers == 2

\* Permits released in one run (sum of the amounts of the release() calls).
MaxGiven == 3

\* Bits of the permit word in the model (the Int32Array element has 32).
PermitBits == 3

Acquirers == 1..NumAcquirers

\* release() call slots.
Releasers == {1, 2}

\* The amounts passed to acquire() and release().
Amounts == {1, 2}

\* The largest and the smallest value of the signed permit word.
MaxPermits == 2 ^ (PermitBits - 1) - 1

MinPermits == 0 - 2 ^ (PermitBits - 1)

\* The initial permits passed to the constructor.
InitialPermits == {0, 1, MaxPermits}

\* A store into the Int32Array element: the value modulo 2^bits, signed.
ToInt(x) == ((x - MinPermits) % (2 ^ PermitBits)) + MinPermits

\* new Semaphore(arg): this.state[IDX_PERMITS] = arg
SemNew(p) ==
    /\ ~semMade
    /\ semMade' = TRUE
    /\ initial' = p
    /\ permits' = ToInt(p)
    /\ UNCHANGED <<parked, apc, amount, current, rpc, taken, given, disposals>>
    /\ UNCHANGED offSem

\* acquire(): const current = Atomics.load(state, IDX_PERMITS) and the test
\* current >= amount, at the call (with its amount) and each time round the loop.
SemLoad(a, n) ==
    /\ semMade
    /\ apc[a] \in {"idle", "loop"}
    /\ amount' = [amount EXCEPT ![a] = IF apc[a] = "idle" THEN n ELSE @]
    /\ apc[a] = "loop" => n = amount[a]
    /\ current' = [current EXCEPT ![a] = permits]
    /\ apc' = [apc EXCEPT ![a] = IF permits >= amount'[a] THEN "cas" ELSE "wait"]
    /\ UNCHANGED <<permits, semMade, initial, parked, rpc, taken, given, disposals>>
    /\ UNCHANGED offSem

\* A mutant of SemExchanged: the word is stored without the comparison.
SemExchangedAlways(a) == TRUE

\* Atomics.compareExchange(state, IDX_PERMITS, current, current - amount) === current
SemExchanged(a) == permits = current[a]

\* acquire(): the compare-exchange; the call fulfils with its token when the
\* word still held the loaded value, and goes round the loop otherwise.
SemCAS(a) ==
    /\ apc[a] = "cas"
    /\ IF SemExchanged(a)
         THEN /\ permits' = ToInt(current[a] - amount[a])
              /\ apc' = [apc EXCEPT ![a] = "token"]
              /\ taken' = taken + amount[a]
         ELSE /\ permits' = permits
              /\ apc' = [apc EXCEPT ![a] = "loop"]
              /\ taken' = taken
    /\ UNCHANGED <<semMade, initial, parked, amount, current, rpc, given, disposals>>
    /\ UNCHANGED offSem

\* acquire(): Atomics.waitAsync(state, IDX_PERMITS, current); if (res.async)
\* await res.value.  The call parks when the word still holds the loaded
\* value; otherwise the wait is "not-equal" and the loop goes round.
SemWait(a) ==
    /\ apc[a] = "wait"
    /\ IF permits = current[a]
         THEN /\ parked' = parked \cup {a}
              /\ apc' = [apc EXCEPT ![a] = "parked"]
         ELSE /\ parked' = parked
              /\ apc' = [apc EXCEPT ![a] = "loop"]
    /\ UNCHANGED <<permits, semMade, initial, amount, current, rpc, taken, given, disposals>>
    /\ UNCHANGED offSem

\* The caller lets go of its token; the slot may call acquire() again.
SemDrop(a) ==
    /\ apc[a] = "token"
    /\ apc' = [apc EXCEPT ![a] = "idle"]
    /\ disposals' = [disposals EXCEPT ![a] = 0]
    /\ UNCHANGED <<permits, semMade, initial, parked, amount, current, rpc, taken, given>>
    /\ UNCHANGED offSem

\* The amounts that disposals of tokens have added and not yet notified for.
RECURSIVE Disposing(_)
Disposing(S) ==
    IF S = {} THEN 0
    ELSE LET a == CHOOSE x \in S : TRUE
         IN  (IF apc[a] = "disposing" THEN amount[a] ELSE 0) + Disposing(S \ {a})

\* The permits released so far, by release() calls completed or not.
Releases == given + rpc[1] + rpc[2] + Disposing(Acquirers)

\* The token of acquire(amount): { [Symbol.dispose]: () => this.release(amount) }
TokenAdds(a) == amount[a]

\* token[Symbol.dispose](): release(amount), its Atomics.add.  The token
\* keeps no record of having been disposed.
SemDispose(a) ==
    /\ apc[a] = "token"
    /\ Releases + amount[a] <= MaxGiven
    /\ permits' = ToInt(permits + TokenAdds(a))
    /\ apc' = [apc EXCEPT ![a] = "disposing"]
    /\ disposals' = [disposals EXCEPT ![a] = @ + 1]
    /\ UNCHANGED <<semMade, initial, parked, amount, current, rpc, taken, given>>
    /\ UNCHANGED offSem

\* token[Symbol.dispose](): release(amount), its Atomics.notify(..., Infinity);
\* the caller still holds the token afterwards.
SemDisposeNotify(a) ==
    /\ apc[a] = "disposing"
    /\ apc' = [b \in Acquirers |->
                 IF b = a THEN "token" ELSE IF b \in parked THEN "loop" ELSE apc[b]]
    /\ parked' = {}
    /\ given' = given + amount[a]
    /\ UNCHANGED <<permits, semMade, initial, amount, current, rpc, taken, disposals>>
    /\ UNCHANGED offSem

\* release(amount): Atomics.add(state, IDX_PERMITS, amount)
SemAdd(r, n) ==
    /\ semMade
    /\ rpc[r] = 0
    /\ Releases + n <= MaxGiven
    /\ permits' = ToInt(permits + n)
    /\ rpc' = [rpc EXCEPT ![r] = n]
    /\ UNCHANGED <<semMade, initial, parked, apc, amount, current, taken, given, disposals>>
    /\ UNCHANGED offSem

\* release(amount): Atomics.notify(state, IDX_PERMITS, Infinity) wakes every
\* parked call.
SemNotify(r) ==
    /\ rpc[r] # 0
    /\ apc' = [a \in Acquirers |-> IF a \in parked THEN "loop" ELSE apc[a]]
    /\ parked' = {}
    /\ given' = given + rpc[r]
    /\ rpc' = [rpc EXCEPT ![r] = 0]
    /\ UNCHANGED <<permits, semMade, initial, amount, current, taken, disposals>>
    /\ UNCHANGED offSem

\* The steps of acquire() call a that its caller does not choose: the loop
\* of an acquire() that was issued.
SemRun(a) ==
    \/ apc[a] = "loop" /\ SemLoad(a, amount[a])
    \/ SemCAS(a)
    \/ SemWait(a)

SemInit ==
    /\ permits = 0
    /\ semMade = FALSE
    /\ initial = 0
    /\ parked = {}
    /\ apc = [a \in Acquirers |-> "idle"]
    /\ amount = [a \in Acquirers |-> 1]
    /\ current = [a \in Acquirers |-> 0]
    /\ rpc = [r \in Releasers |-> 0]
    /\ taken = 0
    /\ given = 0
    /\ disposals = [a \in Acquirers |-> 0]

SemNext ==
    \/ \E p \in InitialPermits : SemNew(p)
    \/ \E a \in Acquirers, n \in Amounts : SemLoad(a, n)
    \/ \E a \in Acquirers : SemCAS(a)
    \/ \E a \in Acquirers : SemWait(a)
    \/ \E a \in Acquirers : SemDrop(a)
    \/ \E a \in Acquirers : SemDispose(a)
    \/ \E a \in Acquirers : SemDisposeNotify(a)
    \/ \E r \in Releasers, n \in Amounts : SemAdd(r, n)
    \/ \E r \in Releasers : SemNotify(r)

-----------------------------------------------------------------------------
(***************************************************************************)
(* The props filter of __worker_wrapper__ and isStructuredClonable         *)
(***************************************************************************)

\* The names the scope analysis found for the call site: locals and topLevels.
Locals == {"a"}

TopLevels == {"x", "y"}

\* spawn(): const allVars = [...locals, ...topLevels]
AllVars == Locals \cup TopLevels

\* The topLevelCandidates argument, in the order spawn() lists them.
TopLevelCandidates == <<"x", "y">>

\* The kinds of captured values: a number, undefined, a function, a symbol, a
\* plain object of clonable parts, an object that holds a function, a Global,
\* a SharedArrayBuffer, an ArrayBuffer, and an ArrayBuffer that an earlier
\* postMessage transferred away (detached).
Kinds == {"number", "undefined", "function", "symbol", "plain", "holdsFunction",
          "global", "shared", "buffer", "detached"}

\* structuredClone(val) throws DataCloneError.
StructuredCloneThrows(v) == v \in {"function", "symbol", "holdsFunction", "detached"}

\* isStructuredClonable(val) of utils.ts, branch by branch.
IsStructuredClonable(v) ==
    IF v = "undefined" THEN TRUE
    ELSE IF v = "function" THEN FALSE
    ELSE IF v = "symbol" THEN FALSE
    ELSE IF v = "number" THEN TRUE
    ELSE IF v = "shared" THEN TRUE
    ELSE IF v \in {"buffer", "detached"} THEN TRUE
    ELSE ~StructuredCloneThrows(v)

\* val instanceof Global
InstanceOfGlobal(v) == v = "global"

\* delete props[name]
DeleteName(p, name) == [n \in (DOMAIN p) \ {name} |-> p[n]]

\* The filter loop, from candidate i on: a candidate that is in the props is
\* deleted when its value is a Global or isStructuredClonable(val) is false.
RECURSIVE FilterProps(_, _, _)
FilterProps(p, cands, i) ==
    IF i > Len(cands) THEN p
    ELSE LET name == cands[i]
         IN  IF name \in DOMAIN p
               THEN IF InstanceOfGlobal(p[name]) THEN FilterProps(DeleteName(p, name), cands, i + 1)
                    ELSE IF ~IsStructuredClonable(p[name])
                           THEN FilterProps(DeleteName(p, name), cands, i + 1)
                           ELSE FilterProps(p, cands, i + 1)
               ELSE FilterProps(p, cands, i + 1)

\* eval of the snippet spawn() returned: the props object { a, x, y } holds
\* the value each name has in the caller's scope.
Capture(p) ==
    /\ props' = p
    /\ captured' = p
    /\ filtered' = FALSE
    /\ UNCHANGED offFlt

\* __worker_wrapper__: the filter loop over topLevelCandidates.
Filter ==
    /\ ~filtered
    /\ DOMAIN props = AllVars
    /\ props' = FilterProps(props, TopLevelCandidates, 1)
    /\ filtered' = TRUE
    /\ UNCHANGED captured
    /\ UNCHANGED offFlt

FltInit ==
    /\ props = <<>>
    /\ captured = <<>>
    /\ filtered = FALSE

FltNext ==
    \/ \E p \in [AllVars -> Kinds] : Capture(p)
    \/ Filter

-----------------------------------------------------------------------------
(***************************************************************************)
(* hydrate: a Mutex captured into the props, over main -> W1 -> W2         *)
(***************************************************************************)

\* Where the captured value holds the Mutex: it is the captured value itself,
\* a property of a captured plain object, an element of a captured array, or
\* a value of a captured Map.
Wraps == {"direct", "object", "array", "map"}

\* const REGISTRY: the classes registered by their static blocks.
REGISTRY == {"Mutex", "Semaphore"}

\* No Mutex (the job code of a worker that has not handled a job).
NoMutex == [live |-> FALSE, cls |-> "none", state |-> NoBuf, data |-> NoBuf]

\* new Mutex(new SharedArrayBuffer(4)) at module scope of isolate t: a live
\* instance over a state buffer and the data buffer, both allocated here.
NewMutex(t) == [live |-> TRUE, cls |-> "Mutex",
                state |-> NewBuffer(t, 0, "state", 1),
                data |-> NewBuffer(t, 0, "data", 1)]

\* Structured cloning of a Mutex (instance or shadow) into isolate t: a plain
\* object { __cls, state, _data } without the prototype, its typed array and
\* its buffer over the same backing stores.
CloneStruct(m, t) == [live |-> FALSE, cls |-> m.cls,
                      state |-> CloneBuffer(m.state, t),
                      data |-> IF m.data = NoBuf THEN NoBuf ELSE CloneBuffer(m.data, t)]

\* hydrate(obj) on the shadow of a registered class: new Cls(obj.state.buffer,
\* true), and every other property (here _data) hydrated and assigned.
HydrateStruct(m) ==
    IF m.cls \in REGISTRY /\ m.state # NoBuf
      THEN [live |-> TRUE, cls |-> m.cls, state |-> m.state, data |-> m.data]
      ELSE m

\* hydrate(data.props): arrays are mapped, the enumerable properties of
\* objects are hydrated in place; a Map has no enumerable properties, so its
\* values stay as they were cloned.
HydrateProps(p) ==
    IF p.wrap \in {"direct", "object", "array"}
      THEN [p EXCEPT !.m = HydrateStruct(p.m)]
      ELSE p

\* Job code of isolate t dispatches a job whose closure captures the Mutex.
RawSpawn(t, wrap) ==
    /\ t + 1 \in Workers
    /\ rawProps[t].m # NoMutex
    /\ Len(rawChan[t + 1]) + rawHandled[t + 1] < MaxMsgs
    /\ rawChan' = [rawChan EXCEPT ![t + 1] =
                     Append(@, [wrap |-> wrap, m |-> CloneStruct(rawProps[t].m, t + 1)])]
    /\ UNCHANGED <<rawProps, rawHandled>>
    /\ UNCHANGED offRaw

\* self.onmessage of worker t: const hydratedProps = hydrate(data.props).
RawReceive(t) ==
    /\ t \in Workers
    /\ rawChan[t] # <<>>
    /\ rawProps' = [rawProps EXCEPT ![t] = HydrateProps(Head(rawChan[t]))]
    /\ rawChan' = [rawChan EXCEPT ![t] = Tail(@)]
    /\ rawHandled' = [rawHandled EXCEPT ![t] = @ + 1]
    /\ UNCHANGED offRaw

RawInit ==
    /\ rawProps = [t \in Threads |->
                     IF IsMainThread(t) THEN [wrap |-> "direct", m |-> NewMutex(t)]
                     ELSE [wrap |-> "direct", m |-> NoMutex]]
    /\ rawChan = [t \in Threads |-> <<>>]
    /\ rawHandled = [t \in Threads |-> 0]

RawNext ==
    \/ \E t \in Threads, wrap \in Wraps : RawSpawn(t, wrap)
    \/ \E t \in Threads : RawReceive(t)

-----------------------------------------------------------------------------
(***************************************************************************)
(* Scope analyzer of spawn(): analyzeScope, isValidUsage, defines (lib.ts) *)
(*                                                                         *)
(* A parsed file is a sequence of nodes in document order; a node holds    *)
(* its kind, its parent, its text (identifiers, declaration names), the    *)
(* slot of the parent it fills and the names it binds (parameters of a     *)
(* function, declared names of a variable statement, of the initializer    *)
(* of a loop, of an import clause).                                        *)
(***************************************************************************)

\* Statements in the body of the spawned function.
MaxStmts == 2

Names == {"a", "b"}

Node(kind, parent, text, slot, binds) ==
    [kind |-> kind, parent |-> parent, text |-> text, slot |-> slot, binds |-> binds]

\* The statement forms of the body, and the nodes of statement `form` about
\* name x, whose first node has index k and whose parent is `root`:
\*   use       x;
\*   const     const x = 0;
\*   block     { const x = 0; x; }
\*   for       for (let x = 0; ; ) { x; }
\*   forOf     for (const x of o) { x; }
\*   prop      o.x;
\*   bindProp  const { x: z } = o;
\*   spawn     spawn(() => { x; });
Forms == {"use", "const", "block", "for", "forOf", "prop", "bindProp", "spawn"}

Stmt(form, x, k, root) ==
    CASE form = "use" ->
           << Node("ExpressionStatement", root, "", "statement", {}),
              Node("Identifier", k, x, "expression", {}) >>
      [] form = "const" ->
           << Node("VariableStatement", root, "", "statement", {x}),
              Node("VariableDeclaration", k, "", "declaration", {x}),
              Node("Identifier", k + 1, x, "name", {}) >>
      [] form = "block" ->
           << Node("Block", root, "", "statement", {}),
              Node("VariableStatement", k, "", "statement", {x}),
              Node("VariableDeclaration", k + 1, "", "declaration", {x}),
              Node("Identifier", k + 2, x, "name", {}),
              Node("ExpressionStatement", k, "", "statement", {}),
              Node("Identifier", k + 4, x, "expression", {}) >>
      [] form \in {"for", "forOf"} ->
           << Node(IF form = "for" THEN "ForStatement" ELSE "ForOfStatement",
                   root, "", "statement", {x}),
              Node("VariableDeclaration", k, "", "declaration", {x}),
              Node("Identifier", k + 1, x, "name", {}),
              Node("Block", k, "", "statement", {}),
              Node("ExpressionStatement", k + 3, "", "statement", {}),
              Node("Identifier", k + 4, x, "expression", {}) >>
      [] form = "prop" ->
           << Node("ExpressionStatement", root, "", "statement", {}),
              Node("PropertyAccessExpression", k, "", "expression", {}),
              Node("Identifier", k + 1, "o", "expression", {}),
              Node("Identifier", k + 1, x, "name", {}) >>
      [] form = "bindProp" ->
           << Node("VariableStatement", root, "", "statement", {"z"}),
              Node("VariableDeclaration", k, "", "declaration", {"z"}),
              Node("ObjectBindingPattern", k + 1, "", "name", {"z"}),
              Node("BindingElement", k + 2, "", "element", {"z"}),
              Node("Identifier", k + 3, x, "propertyName", {}),
              Node("Identifier", k + 3, "z", "name", {}) >>
      [] form = "spawn" ->
           << Node("ExpressionStatement", root, "", "statement", {}),
              Node("CallExpression", k, "", "expression", {}),
              Node("Identifier", k + 1, "spawn", "expression", {}),
              Node("ArrowFunction", k + 1, "", "argument", {}),
              Node("Block", k + 3, "", "body", {}),
              Node("ExpressionStatement", k + 4, "", "statement", {}),
              Node("Identifier", k + 5, x, "expression", {}) >>

RECURSIVE Body(_, _, _)
Body(stmts, k, root) ==
    IF stmts = <<>> THEN <<>>
    ELSE LET s == Stmt(Head(stmts).form, Head(stmts).name, k, root)
         IN  s \o Body(Tail(stmts), k + Len(s), root)

\* The file
\*   import { spawn } from "lib";  const <top> = ...;
\*   function outer() { const <outer> = ...; spawn((<params>) => { <stmts> }); }
SourceFile(top, outer, params, stmts) ==
    << Node("SourceFile", 0, "", "", {}),
       Node("ImportDeclaration", 1, "", "statement", {"spawn"}),
       Node("VariableStatement", 1, "", "statement", top),
       Node("FunctionDeclaration", 1, "outer", "statement", {}),
       Node("Block", 4, "", "body", {}),
       Node("VariableStatement", 5, "", "statement", outer),
       Node("ExpressionStatement", 5, "", "statement", {}),
       Node("CallExpression", 7, "", "expression", {}),
       Node("Identifier", 8, "spawn", "expression", {}),
       Node("ArrowFunction", 8, "", "argument", params),
       Node("Block", 10, "", "body", {}) >>
    \o Body(stmts, 12, 11)

Bodies ==
    UNION { [1..n -> [form : Forms, name : Names]] : n \in 0..MaxStmts }

SourceFiles ==
    { SourceFile(top, outer, params, stmts) :
        top \in {{}, {"a"}, {"a", "b"}}, outer \in {{}, {"a"}, {"b"}},
        params \in {{}, {"b"}}, stmts \in Bodies }

\* ts.forEachChild order: the children of node n in document order.
Children(P, n) ==
    LET RECURSIVE From(_)
        From(i) == IF i > Len(P) THEN <<>>
                   ELSE IF P[i].parent = n THEN <<i>> \o From(i + 1)
                   ELSE From(i + 1)
    IN  From(n + 1)

\* The last node of the subtree of n.
RECURSIVE LastOf(_, _)
LastOf(P, n) ==
    LET cs == Children(P, n)
    IN  IF cs = <<>> THEN n ELSE LastOf(P, cs[Len(cs)])

\* n.pos and n.end: the text range of a node holds the ranges of its
\* subtree; consecutive siblings meet at one offset.
NodePos(P, n) == 2 * n

NodeEnd(P, n) == 2 * LastOf(P, n) + 2

IsSpawnCall(P, n) ==
    /\ P[n].kind = "CallExpression"
    /\ P[Children(P, n)[1]].text = "spawn"

\* The offset a stack frame reports for call n: the start of its callee.
SiteOf(P, n) == NodePos(P, Children(P, n)[1]) + 1

Arguments(P, n) == SelectSeq(Children(P, n), LAMBDA c : P[c].slot = "argument")

\* findFn, started with fnNode = fn at node n.
RECURSIVE FindFn(_, _, _, _), FindFnEach(_, _, _, _)
FindFn(P, at, n, fn) ==
    IF NodePos(P, n) <= at /\ NodeEnd(P, n) >= at /\ IsSpawnCall(P, n)
    THEN Arguments(P, n)[1]
    ELSE FindFnEach(P, at, Children(P, n), fn)

FindFnEach(P, at, cs, fn) ==
    IF cs = <<>> THEN fn
    ELSE FindFnEach(P, at, Tail(cs), FindFn(P, at, Head(cs), fn))

RECURSIVE IsInternal(_, _, _)
IsInternal(P, fn, n) ==
    IF n = 0 THEN FALSE
    ELSE IF n = fn THEN TRUE
    ELSE IsInternal(P, fn, P[n].parent)

IsValidUsage(P, n) ==
    LET p == P[P[n].parent]
    IN  /\ ~ (p.kind \in {"PropertyAccessExpression", "PropertyAssignment"}
                /\ P[n].slot = "name")
        /\ ~ (p.kind \in {"VariableDeclaration", "Parameter", "BindingElement"}
                /\ P[n].slot = "name")
        /\ ~ (p.kind = "ImportSpecifier" /\ P[n].slot = "propertyName")

IsFunctionLike(kind) == kind \in {"FunctionDeclaration", "ArrowFunction"}

Defines(P, n, name) ==
    IF IsFunctionLike(P[n].kind) THEN name \in P[n].binds
    ELSE IF P[n].kind \in {"Block", "SourceFile"}
    THEN \E i \in 1..Len(Children(P, n)) :
            LET s == P[Children(P, n)[i]]
            IN  \/ s.kind = "VariableStatement" /\ name \in s.binds
                \/ s.kind \in {"FunctionDeclaration", "ClassDeclaration"}
                     /\ s.text = name
                \/ s.kind = "ImportDeclaration" /\ name \in s.binds
    ELSE IF P[n].kind \in {"ForStatement", "CatchClause"}
    THEN name \in P[n].binds
    ELSE FALSE

\* The while loop of visit: the first ancestor from curr on that defines
\* the name decides: "internal", "local" (a scope between the function and
\* the file), "top" (the SourceFile); "none" when no ancestor defines it.
RECURSIVE Resolve(_, _, _, _)
Resolve(P, fn, curr, name) ==
    IF curr = 0 THEN "none"
    ELSE IF Defines(P, curr, name)
    THEN IF IsInternal(P, fn, curr) THEN "internal"
         ELSE IF P[curr].kind = "SourceFile" THEN "top" ELSE "local"
    ELSE Resolve(P, fn, P[curr].parent, name)

\* visit(fnNode): the valid identifier usages of the subtree of fn.
Usages(P, fn) ==
    { n \in fn..LastOf(P, fn) : P[n].kind = "Identifier" /\ IsValidUsage(P, n) }

Visit(P, fn, where) ==
    IF fn = 0 THEN {}
    ELSE { P[n].text : n \in { u \in Usages(P, fn) :
                                 Resolve(P, fn, P[u].parent, P[u].text) = where } }

SpawnCalls(P) == { n \in 1..Len(P) : IsSpawnCall(P, n) }

\* spawn() at a call site that SCOPE_ANALYSIS_CACHE does not hold yet:
\* analyzeScope(site).
AnalyzeScope(P, call) ==
    /\ file = <<>>
    /\ file' = P
    /\ pos' = SiteOf(P, call)
    /\ fnNode' = FindFn(P, SiteOf(P, call), 1, 0)
    /\ locals' = Visit(P, fnNode', "local")
    /\ topLevels' = Visit(P, fnNode', "top")
    /\ UNCHANGED offScope

ScopeInit ==
    /\ file = <<>>
    /\ pos = 0
    /\ fnNode = 0
    /\ locals = {}
    /\ topLevels = {}

ScopeNext ==
    \E P \in SourceFiles : \E call \in SpawnCalls(P) : AnalyzeScope(P, call)

-----------------------------------------------------------------------------
(***************************************************************************)
(* getTransferables (utils.ts)                                             *)
(*                                                                         *)
(* A value graph is a function from values to [kind, refs]: the values an  *)
(* object or array holds in its enumerable properties, the buffer of a     *)
(* typed view.  walk() is a recursion; it is modelled by the list of the   *)
(* walk(value) calls still to be made, the next one first.                 *)
(***************************************************************************)

\* Enumerable properties of one object that hold an object value.
MaxProps == 2

Values == {1, 2, 3}

\* "object": a plain object or an array; "port": a MessagePort, an
\* ImageBitmap or a stream; "primitive": a number, a string, null, ...
ValueKinds == {"object", "ArrayBuffer", "SharedArrayBuffer", "view", "port", "primitive"}

IsBuffer(G, v) == G[v].kind \in {"ArrayBuffer", "SharedArrayBuffer"}

\* The value graphs: value 1 is the argument; a view has one buffer.
ValueGraphs ==
    { G \in [Values -> [kind : ValueKinds, refs : SUBSET Values]] :
        /\ G[1].kind = "object"
        /\ \A v \in Values :
             CASE G[v].kind = "object" -> Cardinality(G[v].refs) <= MaxProps
               [] G[v].kind = "view" ->
                    /\ Cardinality(G[v].refs) = 1
                    /\ \A b \in G[v].refs : IsBuffer(G, b)
               [] OTHER -> G[v].refs = {} }

NoGraph == [v \in Values |-> [kind |-> "primitive", refs |-> {}]]

\* The elements of a set of values as a sequence, in ascending order:
\* the order in which for-in meets the keys that hold them.
RECURSIVE InOrder(_)
InOrder(S) ==
    IF S = {} THEN <<>>
    ELSE LET m == CHOOSE x \in S : \A y \in S : x <= y
         IN  <<m>> \o InOrder(S \ {m})

\* value instanceof SharedArrayBuffer (a SharedArrayBuffer is no ArrayBuffer).
InstanceOfShared(G, v) == G[v].kind = "SharedArrayBuffer"

\* transferables.add(v) on a Set that keeps insertion order, appending
\* even when v is present.
SetAddAgain(ts, v) == Append(ts, v)

\* transferables.add(v) on a Set that keeps insertion order.
SetAdd(ts, v) ==
    IF \E i \in 1..Len(ts) : ts[i] = v THEN ts ELSE Append(ts, v)

\* getTransferables(obj): the call, up to walk(obj).
GetTransferables(G) ==
    /\ xpc = "idle"
    /\ graph' = G
    /\ calls' = <<1>>
    /\ seen' = {}
    /\ transferables' = <<>>
    /\ xpc' = "walk"
    /\ UNCHANGED offXfer

\* One call walk(value), the first of the pending ones.
Walk ==
    /\ xpc = "walk"
    /\ calls # <<>>
    /\ LET value == Head(calls)
           kind == graph[value].kind
           buffer == CHOOSE b \in graph[value].refs : TRUE
       IN  IF kind = "primitive" \/ value \in seen
           THEN /\ calls' = Tail(calls)
                /\ UNCHANGED <<seen, transferables>>
           ELSE /\ seen' = seen \cup {value}
                /\ IF kind = "ArrayBuffer"
                   THEN /\ transferables' = SetAdd(transferables, value)
                        /\ calls' = Tail(calls)
                   ELSE IF kind = "port"
                   THEN /\ transferables' = SetAdd(transferables, value)
                        /\ calls' = Tail(calls)
                   ELSE IF kind = "view"
                   THEN /\ transferables' =
                              IF ~ InstanceOfShared(graph, buffer)
                              THEN SetAdd(transferables, buffer)
                              ELSE transferables
                        /\ calls' = Tail(calls)
                   ELSE /\ transferables' = transferables
                        /\ calls' = InOrder(graph[value].refs) \o Tail(calls)
    /\ UNCHANGED <<graph, xpc>>
    /\ UNCHANGED offXfer

\* walk(obj) has returned: return Array.from(transferables).
Return ==
    /\ xpc = "walk"
    /\ calls = <<>>
    /\ xpc' = "returned"
    /\ UNCHANGED <<graph, calls, seen, transferables>>
    /\ UNCHANGED offXfer

XferInit ==
    /\ graph = NoGraph
    /\ calls = <<>>
    /\ seen = {}
    /\ transferables = <<>>
    /\ xpc = "idle"

\* The steps of a call that was made.
XferRun == Walk \/ Return

XferNext ==
    \/ \E G \in ValueGraphs : GetTransferables(G)
    \/ XferRun


Init ==
    /\ MutexInit
    /\ PoolInit
    /\ MemInit
    /\ SemInit
    /\ FltInit
    /\ RawInit
    /\ ScopeInit
    /\ XferInit
    /\ last = [op |-> "init", id |-> 0]

SpecMutex == Init /\ [][MutexNext]_vars

Spec == Init /\ [][PoolNext]_vars

\* The shared-memory registry over main -> W1 -> W2.
SpecMem == Init /\ [][MemNext]_vars

\* acquire() and release() calls of several isolates on one permit word.
SpecSem == Init /\ [][SemNext]_vars

\* lock(), guards and direct release() calls on one lock word.
SpecRelease == Init /\ [][ReleaseNext]_vars

\* The props filter applied to every capture of a local and two top-level names.
SpecFilter == Init /\ [][FltNext]_vars

\* A Mutex captured into the props of jobs, main -> W1 -> W2.
SpecRaw == Init /\ [][RawNext]_vars

\* The sequential caller.
\* spawn() at call sites of bounded source files.
SpecScope == Init /\ [][ScopeNext]_vars

\* One call of getTransferables on a bounded value graph; a call that was
\* made runs on (it is synchronous code).
SpecXfer == Init /\ [][XferNext]_vars /\ WF_vars(XferRun)

\* The mutex under fair scheduling: the event loop of an isolate runs every
\* continuation of a lock() or release() that is queued on it; such a step
\* is disabled only while another synchronous segment runs on the isolate,
\* hence the strong fairness. Issuing lock(), unlocking and dropping a
\* guard remain the callers' choice.
FairMutex == SpecMutex /\ \A c \in Calls : SF_vars(LockRun(c))

\* The semaphore under fair scheduling: an acquire() that can go round its
\* loop does, and a release() that has added notifies (it is synchronous).
FairSem ==
    /\ SpecSem
    /\ \A a \in Acquirers : WF_vars(SemRun(a))
    /\ \A a \in Acquirers : WF_vars(SemDisposeNotify(a))
    /\ \A r \in Releasers : WF_vars(SemNotify(r))

SeqSpec == Init /\ [][SeqNext]_vars

\* The event loop delivers what is deliverable and the workers finish the jobs
\* they were given; the caller is free to dispatch and to shut down or not.
FairSpec == Spec /\ WF_vars(HostNext)

-----------------------------------------------------------------------------
(***************************************************************************)
(* Claims about the Mutex (checked under SpecMutex)                        *)
(***************************************************************************)

\* C1: at most one guard returned by lock() and not yet released exists at
\* any time, and while one exists the lock word is LOCKED, so that no other
\* lock() on the word fulfils before the guard is released.
C1_MutualExclusion ==
    /\ Cardinality(LiveGuards) <= 1
    /\ LiveGuards # {} => lockState = LOCKED

\* C1 witness: a guard is live while one other call is parked on the word and
\* a third was woken by an earlier release and lost the race for the word.
C1_Witness ==
    \E c \in LiveGuards : \E d, e \in Calls \ {c} :
        /\ d # e
        /\ pc[d] = "parked"
        /\ pc[e] = "notified"

\* C2: a lock() issued while a guard was live has not fulfilled as long as
\* that guard is unreleased (heldAtIssue is reset only by the holder's
\* release), whether the holder runs on another isolate or the same one.
C2_BlockedUntilRelease ==
    \A c \in Calls :
        heldAtIssue[c] # 0 => pc[c] \in {"wait", "cas", "parked", "notified"}

\* C2 witness: a lock() issued on the thread that holds the guard is parked
\* while that guard is still unreleased (the mutex is not reentrant).
C2_Witness ==
    \E c \in Calls :
        /\ heldAtIssue[c] # 0
        /\ heldAtIssue[c] \in LiveGuards
        /\ IsolateOf(heldAtIssue[c]) = IsolateOf(c)
        /\ pc[c] = "parked"

\* C3: unlock() / [Symbol.dispose]() on a guard that is already released
\* changes nothing: not the lock word, not the waiter list (nobody is
\* notified), and nothing is thrown.
C3_SecondReleaseNoop ==
    [][(last'.op = "unlock" /\ released[last'.id])
          => UNCHANGED <<lockState, waiters, pc, threw, released>>]_vars

\* C3 witness: a released guard was unlocked again while another call holds
\* the mutex; the word is still LOCKED.
C3_Witness ==
    /\ last.op = "unlock"
    /\ pc[last.id] = "guard"
    /\ released[last.id]
    /\ ~threw[last.id]
    /\ lockState = LOCKED
    /\ \E d \in LiveGuards : d # last.id

-----------------------------------------------------------------------------
(***************************************************************************)
(* Claims about the worker pool                                            *)
(***************************************************************************)

\* The pooled entries of signature s whose busy flag is set.
BusyOf(s) == {e \in Pooled : entries[e].sig = s /\ entries[e].busy}

\* The job appended by a dispatch step.
NewJob == jobs'[Len(jobs')]

\* A dispatch for a signature whose pool holds an idle entry takes that entry
\* and constructs nothing: pool size and active-worker count stay.
IdleReuse ==
    \A s \in Sigs, clonable \in BOOLEAN :
        (Dispatch(s, clonable) /\ FirstIdle(Pool(s)) # 0) =>
            /\ NewJob.entry = FirstIdle(Pool(s))
            /\ Len(entries') = Len(entries)
            /\ Len(WORKER_POOL'[s]) = Len(Pool(s))
            /\ TOTAL_ACTIVE_WORKERS' = TOTAL_ACTIVE_WORKERS

\* C4 (as stated; checked under SeqSpec, the caller that awaits each job of a
\* signature before it issues the next): a dispatch that finds an idle entry
\* reuses it and constructs no worker, and at no time is more than one pooled
\* worker of a signature busy.
C4_IdleReuseOneBusy ==
    [][IdleReuse /\ (\A s \in Sigs : Cardinality(BusyOf(s)) <= 1)']_vars

\* The jobs handed to worker e whose message was posted and which have had no
\* terminal outcome (response or error event) at the caller yet.
Unanswered(e) ==
    {j \in Jobs : jobs[j].entry = e /\ jobs[j].posted /\ jobs[j].promise = "pending"}

Settling ==
    {j \in DOMAIN jobs' :
        /\ jobs'[j].promise # "pending"
        /\ j \in DOMAIN jobs => jobs[j].promise = "pending"}

\* C6 (as stated): whatever settles the promise of a dispatch (a success or
\* error response, a worker error event, a failure of postMessage), the step
\* leaves the job's entry with busy = false and its idle timer armed.
C6_ReleasedOnEveryOutcome ==
    [][\A j \in Settling :
          LET e == jobs'[j].entry
          IN  /\ ~entries'[e].busy
              /\ entries'[e].timer # 0
              /\ <<e, entries'[e].timer>> \in timers']_vars

\* C7: when shutdown() returns the active-worker count is 0, the pool map is
\* empty, and every entry that was pooled has its worker terminated and no
\* timer armed.
C7_ShutdownClearsAll ==
    [][Shutdown =>
          /\ TOTAL_ACTIVE_WORKERS' = 0
          /\ DOMAIN WORKER_POOL' = {}
          /\ \A e \in Pooled :
                /\ wstate'[e] = "terminated"
                /\ \A id \in 1..MaxTimers : <<e, id>> \notin timers']_vars

\* C7 witness: shutdown() has run over a busy entry and an idle entry whose
\* timer was armed; both workers are terminated, no timer is left.
C7_Witness ==
    /\ DOMAIN WORKER_POOL = {}
    /\ TOTAL_ACTIVE_WORKERS = 0
    /\ timers = {}
    /\ \E e1, e2 \in Entries :
          /\ wstate[e1] = "terminated" /\ entries[e1].busy
          /\ wstate[e2] = "terminated" /\ ~entries[e2].busy /\ entries[e2].timer # 0

\* C8 (as stated; checked under FairSpec): a job that is in flight when
\* shutdown() terminates its worker is eventually rejected.
C8_InFlightRejected ==
    \A j \in 1..MaxJobs :
        [](( /\ j \in Jobs
             /\ jobs[j].posted
             /\ jobs[j].promise = "pending"
             /\ wstate[jobs[j].entry] = "terminated" )
            => <>(j \in Jobs /\ jobs[j].promise = "rejected"))

\* C9: when an idle timer callback fires, the busy flag of its entry is false.
C9_EvictsOnlyIdle ==
    [][\A e \in Entries, id \in 1..MaxTimers :
          TimerFires(e, id) => ~entries[e].busy]_vars

\* C9 witness: an entry was evicted by its timer while another worker, busy
\* with a job, runs on.
C9_Witness ==
    \E e1, e2 \in Entries :
        /\ wstate[e1] = "evicted"
        /\ wstate[e2] = "alive"
        /\ entries[e2].busy
        /\ Unanswered(e2) # {}

\* C10: the idle timer callback terminates the worker, lowers the count by
\* one and takes the entry out of its pool; an evicted entry has no timer
\* armed (its timer fired once) and no dispatch is ever handed to it.
C10_EvictionRemoves ==
    [][/\ \A e \in Entries, id \in 1..MaxTimers :
             TimerFires(e, id) =>
                /\ wstate'[e] = "evicted"
                /\ TOTAL_ACTIVE_WORKERS' = TOTAL_ACTIVE_WORKERS - 1
       /\ \A e \in DOMAIN wstate' :
             wstate'[e] = "evicted" =>
                /\ e \notin Pooled'
                /\ \A id \in 1..MaxTimers : <<e, id>> \notin timers'
       /\ \A s \in Sigs, clonable \in BOOLEAN :
             Dispatch(s, clonable) => wstate'[NewJob.entry] # "evicted"]_vars

\* C10 witness: an entry was evicted; a later dispatch of its signature found
\* the pool empty and constructed a new worker.
C10_Witness ==
    \E e \in Entries, j \in Jobs :
        /\ wstate[e] = "evicted"
        /\ jobs[j].sig = entries[e].sig
        /\ jobs[j].entry > e
        /\ jobs[j].poolSize = 0
        /\ wstate[jobs[j].entry] = "alive"
        /\ TOTAL_ACTIVE_WORKERS = 1

\* The total number of entries in the pools of the pool map.
RECURSIVE PoolTotal(_)
PoolTotal(S) ==
    IF S = {} THEN 0
    ELSE LET s == CHOOSE x \in S : TRUE
         IN  Len(WORKER_POOL[s]) + PoolTotal(S \ {s})

\* C30: the active-worker count equals the number of entries in all pools
\* of the pool map and is never negative.
C30_CountMatchesPools ==
    /\ TOTAL_ACTIVE_WORKERS = PoolTotal(DOMAIN WORKER_POOL)
    /\ TOTAL_ACTIVE_WORKERS >= 0

\* C30 witness: a worker was evicted by its idle timer; later shutdown()
\* terminated a worker with a job in flight; the count and the pool map
\* are both empty and no timer is armed.
C30_Witness ==
    /\ TOTAL_ACTIVE_WORKERS = 0
    /\ timers = {}
    /\ \E e1, e2 \in Entries :
          /\ wstate[e1] = "evicted"
          /\ wstate[e2] = "terminated" /\ entries[e2].busy
          /\ listeners[e2] # <<>>

-----------------------------------------------------------------------------
(***************************************************************************)
(* Claims about the worker entry and the caller's promise                  *)
(***************************************************************************)

\* The job messages and responses of worker e that are queued or being run.
Traffic(e) == inbox[e] \o [k \in 1..Len(outbox[e]) |-> outbox[e][k].job]

\* C11 (as stated): when the user function of a job message finishes, the
\* worker entry posts exactly one response for that job, of type success when
\* the function returned and of type error when it threw; the job message is
\* consumed, so no job is answered twice.
C11_ExactlyOneResponse ==
    [][\A e \in Entries, i \in 1..MaxJobs, outcome \in {"returns", "throws"},
          clonable \in BOOLEAN, dce \in BOOLEAN :
          WorkerRespond(e, i, outcome, clonable, dce) =>
             /\ Len(outbox'[e]) = Len(outbox[e]) + 1
             /\ outbox'[e][Len(outbox'[e])] =
                   [type |-> IF outcome = "returns" THEN "success" ELSE "error",
                    job |-> inbox[e][i]]
             /\ \A k, l \in 1..Len(Traffic(e))' :
                   Traffic(e)'[k] = Traffic(e)'[l] => k = l]_vars

\* The jobs whose onMsg / onError listeners are attached to their worker.
Listening(ls) == {j \in 1..MaxJobs : \E e \in DOMAIN ls :
                    \E k \in 1..Len(ls[e]) : ls[e][k] = j}

\* C12 (as stated): a response delivered to a job's listener fulfils the
\* job's promise exactly when its type is success and rejects it exactly when
\* its type is error; a settled promise never changes again; and whenever a
\* promise settles, the job's listeners are no longer attached.
C12_SettlesByResponseType ==
    [][/\ \A e \in Entries :
             Deliver(e) =>
                \A k \in 1..Len(listeners[e]) :
                   LET j == listeners[e][k]
                   IN  jobs[j].promise = "pending" =>
                          /\ jobs'[j].promise = "fulfilled" <=> Head(outbox[e]).type = "success"
                          /\ jobs'[j].promise = "rejected" <=> Head(outbox[e]).type = "error"
       /\ \A j \in Jobs :
             jobs[j].promise # "pending" => jobs'[j].promise = jobs[j].promise
       /\ \A j \in Settling : j \notin Listening(listeners')]_vars

\* C13: an uncaught error event of a worker rejects the promise of the job
\* that is in flight on it and releases the entry: busy = false and the idle
\* timer of the entry armed.
C13_ErrorEventRejectsAndReleases ==
    [][\A e \in Entries, survives \in BOOLEAN :
          WorkerError(e, survives) =>
             \A k \in 1..Len(listeners[e]) :
                LET j == listeners[e][k]
                IN  jobs[j].promise = "pending" =>
                       /\ jobs'[j].promise = "rejected"
                       /\ ~entries'[e].busy
                       /\ entries'[e].timer # 0
                       /\ <<e, entries'[e].timer>> \in timers'
                       /\ listeners'[e] = <<>>]_vars

\* C13 witness: a posted job was rejected while its message is still with the
\* worker (no response was posted for it: the rejection came from an error
\* event), and its entry is idle with its timer armed.
C13_Witness ==
    \E j \in Jobs :
        LET e == jobs[j].entry
        IN  /\ jobs[j].posted
            /\ jobs[j].promise = "rejected"
            /\ \E k \in 1..Len(inbox[e]) : inbox[e][k] = j
            /\ ~entries[e].busy
            /\ <<e, entries[e].timer>> \in timers

-----------------------------------------------------------------------------
(***************************************************************************)
(* Claims about the shared-memory registry (checked under SpecMem)         *)
(***************************************************************************)

\* Every key bound in map is bound in map2 to a buffer over the same backing store.
KeepsBindings(map, map2) ==
    \A i \in 1..Len(map) :
        /\ Has(map2, map[i].key)
        /\ Store(Get(map2, map[i].key)) = Store(map[i].val)

\* C14: in every isolate the registry (GLOBAL_MEMORY, and the worker's
\* WORKER_MEMORY_CACHE) is append-only: no step removes a bound key or binds
\* it to a buffer over another backing store.
C14_RegistryAppendOnly ==
    [][\A t \in Threads :
          /\ KeepsBindings(GLOBAL_MEMORY[t], GLOBAL_MEMORY'[t])
          /\ KeepsBindings(WORKER_MEMORY_CACHE[t], WORKER_MEMORY_CACHE'[t])]_vars

\* C14 witness: the main thread has built a second Global at a site whose
\* key was bound, worker W1 has applied two snapshots and W2 one.
C14_Witness ==
    /\ built[0][2] = 2
    /\ processed[1] = 2
    /\ processed[2] >= 1
    /\ Has(GLOBAL_MEMORY[1], Key(CallSiteId(0, 2), "data"))
    /\ Has(GLOBAL_MEMORY[2], Key(CallSiteId(0, 2), "data"))

\* C15 (as stated): once a worker has handled its first job message, every
\* Global it has built at a site shares the backing store of its state
\* buffer, and of its data buffer if it has one, with the main thread's
\* Globals of that site: what is written through one is read through the other.
C15_SameBackingStore ==
    \A t \in Workers :
        processed[t] >= 1 =>
            \A s \in Sites, n \in 1..MaxBuilds, m \in 1..MaxBuilds :
                (n <= built[t][s] /\ m <= built[0][s]) =>
                    /\ Observes(globals[<<t, s, n>>].state, globals[<<0, s, m>>].state)
                    /\ SiteHasData(s) =>
                          Observes(globals[<<t, s, n>>].data, globals[<<0, s, m>>].data)

-----------------------------------------------------------------------------
(***************************************************************************)
(* Claims about the Semaphore (checked under SpecSem)                      *)
(***************************************************************************)

\* No acquire() is between its load and its compare-exchange or wait, and no
\* release() is between its add and its notify.
Quiescent ==
    /\ semMade
    /\ \A a \in Acquirers : apc[a] \in {"idle", "token", "parked"}
    /\ \A r \in Releasers : rpc[r] = 0

\* C16 (as stated): whenever no acquire or release is mid-operation, the
\* permit word equals the initial permits plus the amounts of the completed
\* release() calls minus the amounts of the fulfilled acquire() calls.
C16_Conservation ==
    Quiescent => permits = initial + given - taken

\* C17 (as stated): with initial permits >= 0 and positive amounts the permit
\* word is never negative.
C17_NeverNegative ==
    semMade => permits >= 0

-----------------------------------------------------------------------------
(***************************************************************************)
(* Claims about Mutex.release() (checked under SpecRelease)                *)
(***************************************************************************)

\* The calls that the step wakes.
NewlyNotified == {d \in Calls : pc'[d] = "notified" /\ pc[d] # "notified"}

\* Call c runs the compare-exchange of release(): through a guard that is
\* not yet released, or on the mutex itself.
Releasing(c) == (Unlock(c) /\ ~AlreadyReleased(c)) \/ RawRelease(c)

\* C18: release() on a word that is UNLOCKED throws, leaves the word
\* UNLOCKED and wakes nobody; release() on a LOCKED word sets it to UNLOCKED,
\* throws nothing, and its notify wakes one waiter (none only when no call
\* is parked), never more.
C18_ReleaseThrowsOrNotifiesOne ==
    [][/\ \A c \in Calls :
             Releasing(c) =>
                IF lockState = UNLOCKED
                  THEN /\ threw'[c]
                       /\ lockState' = UNLOCKED
                       /\ waiters' = waiters
                       /\ NewlyNotified = {}
                       /\ pc'[c] \notin {"notify", "rawnotify"}
                  ELSE /\ threw'[c] => threw[c]
                       /\ lockState' = UNLOCKED
                       /\ pc'[c] \in {"notify", "rawnotify"}
       /\ \A c \in Calls :
             (Notify(c) \/ RawNotify(c)) =>
                /\ Cardinality(NewlyNotified) = IF waiters = <<>> THEN 0 ELSE 1
                /\ Len(waiters') = Len(waiters) - Cardinality(NewlyNotified)
                /\ lockState' = lockState]_vars

\* C18 witness: release() was called while the word was UNLOCKED and a call
\* was parked: it threw, the word is UNLOCKED and the call is still parked.
C18_Witness ==
    /\ last.op = "release"
    /\ threw[last.id]
    /\ lockState = UNLOCKED
    /\ \E d \in Calls : pc[d] = "parked"

-----------------------------------------------------------------------------
(***************************************************************************)
(* Claims about the props filter (checked under SpecFilter)                *)
(***************************************************************************)

\* The value can be posted to the worker: structured cloning accepts it.
Clonable(v) == ~StructuredCloneThrows(v)

\* C19 (as stated): after the filter, a top-level candidate is gone from the
\* props when its captured value is a Global or is not structurally
\* clonable; every other top-level candidate and every local keeps its entry
\* with its value.
C19_FilterDropsExactly ==
    filtered =>
        /\ \A n \in TopLevels :
              IF InstanceOfGlobal(captured[n]) \/ ~Clonable(captured[n])
                THEN n \notin DOMAIN props
                ELSE n \in DOMAIN props /\ props[n] = captured[n]
        /\ \A n \in Locals : n \in DOMAIN props /\ props[n] = captured[n]

-----------------------------------------------------------------------------
(***************************************************************************)
(* Claims about hydrate (checked under SpecRaw)                            *)
(***************************************************************************)

\* C20 (as stated): a Mutex that reached a worker inside the props is, after
\* hydrate, a live Mutex on the lock word and on the data buffer of the main
\* thread's instance, on the worker of the main thread and on the nested one.
C20_RawMutexRebuilt ==
    \A t \in Workers :
        rawHandled[t] >= 1 =>
            /\ rawProps[t].m.live
            /\ Observes(rawProps[t].m.state, rawProps[0].m.state)
            /\ Observes(rawProps[t].m.data, rawProps[0].m.data)

-----------------------------------------------------------------------------
(***************************************************************************)
(* Claims about nested spawns and hydration (checked under SpecMem)        *)
(***************************************************************************)

\* C21 (as stated): every snapshot W1 has posted to W2 binds every key W1
\* received from main to a buffer over the same backing store, and once W1
\* and W2 have each handled a job message the Globals that W1, W2 and the
\* main thread built at one site are over one backing store: what one of
\* them writes the others read.
C21_NestedIdentity ==
    /\ \A i \in 1..Len(chan[2]) :
          KeepsBindings(WORKER_MEMORY_CACHE[1], chan[2][i].globalMemory)
    /\ (processed[1] >= 1 /\ processed[2] >= 1) =>
          \A s \in Sites, n \in 1..MaxBuilds, m \in 1..MaxBuilds, t \in {0, 1} :
             (n <= built[2][s] /\ m <= built[t][s]) =>
                Observes(globals[<<2, s, n>>].state, globals[<<t, s, m>>].state)

\* C27: on the main thread, a construction at a site whose ::state key is
\* not registered binds the keys to the new instance's own state buffer and
\* data buffer (if it has one); a construction at a registered site leaves
\* the registry as it is and gives the new instance the registered buffers;
\* so all Globals the main thread built at one site share one backing store.
C27_MainRegistersOrRebinds ==
    /\ [][\A s \in Sites :
            Construct(0, s) =>
               LET n == built[0][s] + 1
                   g == globals'[<<0, s, n>>]
                   stateKey == Key(CallSiteId(0, s), "state")
                   dataKey == Key(CallSiteId(0, s), "data")
               IN  IF ~ Has(GLOBAL_MEMORY[0], stateKey)
                   THEN /\ g.state = NewBuffer(0, s, "state", n)
                        /\ Get(GLOBAL_MEMORY'[0], stateKey) = NewBuffer(0, s, "state", n)
                        /\ SiteHasData(s) =>
                              /\ g.data = NewBuffer(0, s, "data", n)
                              /\ Get(GLOBAL_MEMORY'[0], dataKey) = NewBuffer(0, s, "data", n)
                   ELSE /\ GLOBAL_MEMORY'[0] = GLOBAL_MEMORY[0]
                        /\ g.state = Get(GLOBAL_MEMORY[0], stateKey)
                        /\ SiteHasData(s) => g.data = Get(GLOBAL_MEMORY[0], dataKey)]_vars
    /\ [](\A s \in Sites, n \in 1..MaxBuilds, m \in 1..MaxBuilds :
            (n <= built[0][s] /\ m <= built[0][s]) =>
               /\ Observes(globals[<<0, s, n>>].state, globals[<<0, s, m>>].state)
               /\ SiteHasData(s) =>
                     Observes(globals[<<0, s, n>>].data, globals[<<0, s, m>>].data))

\* C27 witness: the main thread has built two Globals at a site with a data
\* buffer and two at the site of a raw buffer; the registry holds the five
\* keys of the three sites and the second Globals hold the first ones' buffers.
C27_Witness ==
    /\ built[0][1] = 2
    /\ built[0][3] = 2
    /\ Len(GLOBAL_MEMORY[0]) = 5
    /\ globals[<<0, 1, 2>>].data = NewBuffer(0, 1, "data", 1)
    /\ globals[<<0, 3, 2>>].state = NewBuffer(0, 3, "state", 1)

\* The n-th Global built at site s on worker t is the one parked under its id.
Parked(t, s, n) ==
    /\ Has(PENDING_HYDRATION[t], CallSiteId(t, s))
    /\ Get(PENDING_HYDRATION[t], CallSiteId(t, s)) = <<t, s, n>>

\* The keys the Global of site s needs on worker t are in the worker's cache:
\* a snapshot that holds them has been processed.
KeysArrived(t, s) ==
    /\ Has(WORKER_MEMORY_CACHE[t], Key(CallSiteId(t, s), "state"))
    /\ SiteHasData(s) => Has(WORKER_MEMORY_CACHE[t], Key(CallSiteId(t, s), "data"))

\* C26 (as stated): every Global a worker has built is, as long as no snapshot
\* with its ::state key (and its ::data key, if its inner value has a data
\* buffer) has been processed, parked under its id; once such a snapshot has
\* been processed its buffers are the snapshot's and it is not parked.
C26_PendingHydration ==
    \A t \in Workers, s \in Sites, n \in 1..MaxBuilds :
        n <= built[t][s] =>
            IF KeysArrived(t, s)
            THEN /\ globals[<<t, s, n>>].state =
                       Get(WORKER_MEMORY_CACHE[t], Key(CallSiteId(t, s), "state"))
                 /\ SiteHasData(s) =>
                       globals[<<t, s, n>>].data =
                          Get(WORKER_MEMORY_CACHE[t], Key(CallSiteId(t, s), "data"))
                 /\ ~ Parked(t, s, n)
            ELSE Parked(t, s, n)

\* C28 (as stated): the step in which worker t handles a job message ends
\* with the invocation of the user function; at that point every key of the
\* message's snapshot is in the worker's registry and cache, and every
\* Global of the worker whose ::state key (and ::data key, if it has a data
\* buffer) is in that snapshot holds the snapshot's buffers.
C28_HydratedBeforeUserFunction ==
    [][\A t \in Workers :
          Receive(t) =>
             LET snap == Head(chan[t]).globalMemory
             IN  /\ \A i \in 1..Len(snap) :
                       /\ Has(GLOBAL_MEMORY'[t], snap[i].key)
                       /\ Get(WORKER_MEMORY_CACHE'[t], snap[i].key) = snap[i].val
                 /\ \A s \in Sites, n \in 1..MaxBuilds :
                       (/\ n <= built[t][s]
                        /\ Has(snap, Key(CallSiteId(t, s), "state"))
                        /\ SiteHasData(s) => Has(snap, Key(CallSiteId(t, s), "data")))
                       => /\ globals'[<<t, s, n>>].state =
                                Get(snap, Key(CallSiteId(t, s), "state"))
                          /\ SiteHasData(s) =>
                                globals'[<<t, s, n>>].data =
                                   Get(snap, Key(CallSiteId(t, s), "data"))]_vars

-----------------------------------------------------------------------------
(***************************************************************************)
(* Claims about the scope analyzer (checked under SpecScope)               *)
(***************************************************************************)

\* The language's scoping: node n binds the name for the code it encloses.
\* Every binding `defines` recognises is one; the declaration of a for-of
\* loop is one too.
Binds(P, n, name) ==
    \/ Defines(P, n, name)
    \/ P[n].kind = "ForOfStatement" /\ name \in P[n].binds

\* Where the binding that a reference at `curr` to the name resolves to
\* lies: inside the function fn, outside it, or nowhere.
RECURSIVE BindingOf(_, _, _, _)
BindingOf(P, fn, curr, name) ==
    IF curr = 0 THEN "nowhere"
    ELSE IF Binds(P, curr, name)
    THEN IF IsInternal(P, fn, curr) THEN "inside" ELSE "outside"
    ELSE BindingOf(P, fn, P[curr].parent, name)

\* The identifiers of the subtree of fn that are evaluated for their value.
ValueReferences(P, fn) ==
    { n \in fn..LastOf(P, fn) : P[n].kind = "Identifier" /\ P[n].slot = "expression" }

\* The spawn calls of the file whose text range holds the offset.
CallsAt(P, at) ==
    { n \in SpawnCalls(P) : NodePos(P, n) <= at /\ NodeEnd(P, n) >= at }

\* C29 (as stated): the analysed function is the first argument of the
\* innermost spawn call whose text range holds the offset: the one that
\* holds no other such call in its subtree.
C29_InnermostCall ==
    file # <<>> =>
        \E n \in CallsAt(file, pos) :
            /\ \A m \in CallsAt(file, pos) : ~ (m > n /\ m <= LastOf(file, n))
            /\ fnNode = Arguments(file, n)[1]

\* C22 (as stated): after the analysis of a call site, locals and topLevels
\* are disjoint and each name in them has, inside the analysed function, a
\* value reference that resolves to a binding outside the function: a name
\* whose references resolve inside the function or nowhere is in neither.
C22_CapturedAreFreeNames ==
    fnNode # 0 =>
        /\ locals \cap topLevels = {}
        /\ \A x \in locals \cup topLevels :
              \E n \in ValueReferences(file, fnNode) :
                 /\ file[n].text = x
                 /\ BindingOf(file, fnNode, file[n].parent, x) = "outside"

-----------------------------------------------------------------------------
(***************************************************************************)
(* Claims about getTransferables (checked under SpecXfer)                  *)
(***************************************************************************)

\* The values reached from the argument through properties of plain
\* objects and arrays.
RECURSIVE ReachedFrom(_, _)
ReachedFrom(G, S) ==
    LET T == S \cup UNION { G[v].refs : v \in { w \in S : G[w].kind = "object" } }
    IN  IF T = S THEN S ELSE ReachedFrom(G, T)

\* The non-shared ArrayBuffers reached directly or as the buffer of a
\* reached typed view.
ReachedBuffers(G) ==
    LET R == ReachedFrom(G, {1})
    IN  { b \in Values :
            /\ G[b].kind = "ArrayBuffer"
            /\ \/ b \in R
               \/ \E v \in R : G[v].kind = "view" /\ b \in G[v].refs }

Occurrences(ts, v) == Cardinality({ i \in 1..Len(ts) : ts[i] = v })

\* C23: a call of getTransferables returns, on cyclic graphs too; what it
\* returns holds no SharedArrayBuffer and holds exactly once every
\* non-shared ArrayBuffer reached directly or as the buffer of a typed view.
C23_TransferablesExact ==
    /\ (xpc = "walk") ~> (xpc = "returned")
    /\ [](xpc = "returned" =>
            /\ \A i \in 1..Len(transferables) :
                  graph[transferables[i]].kind # "SharedArrayBuffer"
            /\ \A b \in ReachedBuffers(graph) : Occurrences(transferables, b) = 1)

\* C23 witness: the call has returned on a cyclic graph in which a typed
\* view and, through a second object, that view's non-shared buffer are reached.
C23_Witness ==
    /\ xpc = "returned"
    /\ graph[1].refs = {2, 3}
    /\ graph[2].kind = "object" /\ graph[2].refs = {1, 3}
    /\ graph[3].kind = "ArrayBuffer"
    /\ transferables = <<3>>


-----------------------------------------------------------------------------
(***************************************************************************)
(* Wake-ups of the Mutex (checked under FairMutex)                         *)
(***************************************************************************)

\* The lock() calls that were issued and have not fulfilled.
PendingLocks == { c \in Calls : pc[c] \in {"wait", "cas", "parked", "notified"} }

\* A guard has just been released: its release() has stored UNLOCKED.
JustReleased ==
    /\ last.op = "unlock"
    /\ pc[last.id] = "notify"
    /\ lockState = UNLOCKED

\* C24 (as stated): if a guard is released while the lock() calls S are
\* pending, then eventually one of the calls of S fulfils.
C24_PendingCallFulfils ==
    \A S \in (SUBSET Calls) \ {{}} :
        (JustReleased /\ PendingLocks = S) ~> (\E c \in S : pc[c] = "guard")

\* C24 (amended): while the word is UNLOCKED and a lock() is parked, a step
\* that leads to a fulfilment is ready (a notify under way, or a call that
\* was woken or is between its failed compare-exchange and its wait), and
\* whenever the word is UNLOCKED and a lock() is pending, eventually some
\* lock() on the word fulfils: a pending one or one issued later.
C24_NoLostWakeup ==
    /\ []((lockState = UNLOCKED /\ \E c \in Calls : pc[c] = "parked") =>
            \E d \in Calls : pc[d] \in {"notify", "notified", "cas", "wait"})
    /\ (lockState = UNLOCKED /\ PendingLocks # {}) ~> (lockState = LOCKED)

\* C24 witness: a call that was parked and woken has taken the word while
\* another call is still parked and no guard but its own is live.
C24_Witness ==
    /\ last.op = "lock"
    /\ pc[last.id] = "guard"
    /\ heldAtIssue[last.id] = 0
    /\ LiveGuards = {last.id}
    /\ \E d \in Calls : pc[d] = "parked"
    /\ \E e \in Calls \ {last.id} : pc[e] = "guard" /\ released[e]

-----------------------------------------------------------------------------
(***************************************************************************)
(* Wake-ups of the Semaphore (checked under FairSem)                       *)
(***************************************************************************)

\* acquire() call a was issued and has not fulfilled.
PendingAcquire(a) == apc[a] \in {"loop", "cas", "wait", "parked"}

\* A release() has just added to the word and not yet notified.
JustAdded ==
    \/ \E r \in Releasers : rpc[r] # 0
    \/ \E a \in Acquirers : apc[a] = "disposing"

\* C25 (as stated): if a release brings the word to a value >= n while an
\* acquire(n) is pending (parked, or between its load and its wait), then
\* eventually that acquire fulfils or the word is below n because another
\* acquire has lowered it (acquires never lower the word below 0).
C25_NoLostWakeup ==
    \A a \in Acquirers :
        (JustAdded /\ PendingAcquire(a) /\ permits >= amount[a])
            ~> (apc[a] = "token" \/ (0 <= permits /\ permits < amount[a]))

-----------------------------------------------------------------------------
(***************************************************************************)
(* Claims about a reused worker, its idle timers and terminated workers    *)
(* (checked under Spec)                                                    *)
(***************************************************************************)

\* The jobs whose onMsg is attached to worker e and whose promise is unsettled.
Awaiting(e) == {j \in Jobs : /\ \E i \in 1..Len(listeners[e]) : listeners[e][i] = j
                             /\ jobs[j].promise = "pending"}

\* C31: a response that settles a job's promise was posted by the worker for
\* that job's own message: whenever a "message" event is delivered, every
\* job it settles is the job the delivered response was produced for.
C31_ResponseForOwnJob ==
    [][\A e \in Entries :
          Deliver(e) => \A j \in Awaiting(e) : Head(outbox[e]).job = j]_vars

\* The armed idle timers of entry e.
ArmedOf(e) == {id \in 1..MaxTimers : <<e, id>> \in timers}

\* C32: an entry with busy = true has no armed idle timer and every entry
\* has at most one armed idle timer, the one entry.timer names; a dispatch
\* that reuses an entry leaves none of its timers armed, and a timer that
\* fires is the one its entry armed last.
C32_NoStaleTimer ==
    /\ [](\A e \in Entries :
             /\ entries[e].busy => ArmedOf(e) = {}
             /\ Cardinality(ArmedOf(e)) <= 1
             /\ ArmedOf(e) \subseteq {entries[e].timer})
    /\ [][\A s \in Sigs, clonable \in BOOLEAN :
             Dispatch(s, clonable) /\ FirstIdle(Pool(s)) # 0
               => LET e == FirstIdle(Pool(s))
                  IN  /\ entries'[e].busy
                      /\ \A id \in 1..MaxTimers : <<e, id>> \notin timers']_vars
    /\ [][\A e \in Entries, id \in 1..MaxTimers :
             TimerFires(e, id) => id = entries[e].timer /\ ~entries[e].busy]_vars

\* C32 witness: an entry whose first job was answered, which armed its idle
\* timer, was handed a second job: it is busy and none of its timers is armed.
C32_Witness ==
    \E e \in Entries, j1, j2 \in Jobs :
        /\ j1 < j2
        /\ jobs[j1].entry = e /\ jobs[j1].promise = "fulfilled"
        /\ jobs[j2].entry = e /\ jobs[j2].promise = "pending"
        /\ entries[e].busy
        /\ ArmedOf(e) = {}

\* The entry the dispatch that has just been made was handed to.
Handed == jobs'[Len(jobs')].entry

\* C33: no job message is posted to a terminated worker: an entry whose
\* worker was terminated by its idle timer or by shutdown() is in no pool of
\* the pool map and holds no job message, and the entry a dispatch selects
\* is never one whose worker was terminated.
C33_NoPostToTerminated ==
    /\ [](\A e \in Entries :
             IsTerminated(e) => e \notin Pooled /\ inbox[e] = <<>>)
    /\ [][\A s \in Sigs, clonable \in BOOLEAN :
             Dispatch(s, clonable)
               => /\ Handed \in Entries => ~IsTerminated(Handed)
                  /\ wstate'[Handed] \notin {"evicted", "terminated"}
                  /\ \A e \in Entries : IsTerminated(e) => inbox'[e] = <<>>]_vars

\* C33 witness: shutdown() terminated a worker; a later job of the same
\* signature found an empty pool and was posted to a new worker.
C33_Witness ==
    \E e1, e2 \in Entries, j \in Jobs :
        /\ e1 < e2
        /\ wstate[e1] = "terminated"
        /\ entries[e2].sig = entries[e1].sig
        /\ jobs[j].entry = e2 /\ jobs[j].poolSize = 0
        /\ wstate[e2] = "alive"
        /\ inbox[e2] = <<j>>
        /\ e2 \in Pooled

-----------------------------------------------------------------------------
(***************************************************************************)
(* Claims about the token of Semaphore.acquire() (checked under SpecSem)   *)
(***************************************************************************)

\* C34 (as stated): the token of acquire(n) is not one-shot: every disposal
\* of it, the first or a later one, raises the permit word by n, and its
\* notify wakes every parked acquire() and leaves the token with its holder,
\* so k disposals raise the permit count by k*n.
C34_TokenNotOneShot ==
    /\ [][\A a \in Acquirers :
             SemDispose(a) => /\ permits' = permits + amount[a]
                              /\ disposals'[a] = disposals[a] + 1]_vars
    /\ [][\A a \in Acquirers :
             SemDisposeNotify(a) => /\ parked' = {}
                                    /\ \A b \in parked : apc'[b] = "loop"
                                    /\ apc'[a] = "token"
                                    /\ permits' = permits]_vars

=============================================================================
